---------------------------- MODULE Spec2Model ----------------------------
(***************************************************************************)
(* A model of the Croissant metadata library (aqora-io/rustcroissant):     *)
(*   - the entity model and its serde wire codec    (croissant/core.rs)    *)
(*   - scalar type inference, DataType::from(&String) (croissant/core.rs)  *)
(*   - the semantic validator                     (croissant/validate.rs)  *)
(*   - the CSV metadata generator                 (croissant/generate.rs)  *)
(*                                                                         *)
(* All four are pure functions of their inputs, so each gets its own       *)
(* specification: Init draws the input from a bounded set and one action   *)
(* applies the function.  Variables of the other components keep an idle   *)
(* value.                                                                  *)
(*                                                                         *)
(* Conventions.  A Rust Option<T> is None or Some(v); a Result<T, E> is    *)
(* Ok(v) or Err(e).  A JSON document is a record tagged by j: "null",      *)
(* "bool", "string", "array" or "object".  Text that the program only      *)
(* compares or copies is a TLA+ string; text that the program parses       *)
(* (samples of type inference) is a sequence of one-character strings.     *)
(***************************************************************************)
EXTENDS Integers, Sequences, FiniteSets, TLC

VARIABLES
    pc,         \* position of the running operation
    value,      \* codec: the Metadata tree to encode (or NoValue)
    json,       \* codec: the wire document (or NoValue)
    decoded,    \* codec: the result of decoding json (or NoValue)
    sample,     \* inference: the raw sample string
    inferred,   \* inference: the DataType inferred from sample
    metadata,   \* validator: the Metadata tree handed to validate_metadata
    issues,     \* validator: the ValidationIssues it returned
    csv,        \* generator: the call's arguments and what its reads answer
    generated,  \* generator: the value generate_metadata_from_csv returned
    columns,    \* generator: the data type of each header the loop reached
    written,    \* generator: the content written to the output path
    reported,   \* report: the text ValidationIssues::report returned
    previous    \* validator: the issues of the invocation before the last

vars == <<pc, value, json, decoded, sample, inferred, metadata, issues,
          csv, generated, columns, written, reported, previous>>

NoValue == [none |-> TRUE]

-----------------------------------------------------------------------------
(* Option, Result and sequence helpers                                      *)

None == [some |-> FALSE]
Some(v) == [some |-> TRUE, v |-> v]

Ok(v) == [ok |-> TRUE, v |-> v]
Err(e) == [ok |-> FALSE, e |-> e]

\* Some around a successful result.
OptionOf(r) == IF r.ok THEN Ok(Some(r.v)) ELSE r

Range(s) == {s[i] : i \in 1..Len(s)}

\* All sequences over S of length 0..n.
SeqsUpTo(S, n) == UNION {[1..k -> S] : k \in 0..n}

\* The results of a sequence of decodes, collected as Vec<T>'s Deserialize
\* does: the first failure is the failure of the whole.
Collect(rs) ==
    IF \A i \in 1..Len(rs) : rs[i].ok
    THEN Ok([i \in 1..Len(rs) |-> rs[i].v])
    ELSE Err((CHOOSE i \in 1..Len(rs) :
                  ~rs[i].ok /\ \A k \in 1..(i - 1) : rs[k].ok) :> "element")

-----------------------------------------------------------------------------
(* JSON documents                                                           *)

JNull == [j |-> "null"]
JBool(b) == [j |-> "bool", b |-> b]
JString(s) == [j |-> "string", s |-> s]
JArray(a) == [j |-> "array", a |-> a]
JObject(o) == [j |-> "object", o |-> o]

\* What a decoder is handed for a key the object does not hold; no type
\* accepts it, an Option reads it as None.
JMissing == [j |-> "missing"]

HasKey(doc, k) == doc.j = "object" /\ k \in DOMAIN doc.o

\* The value under key k of a struct written as an object.  Unknown keys
\* are ignored (no struct denies them).
Get(doc, k) == IF HasKey(doc, k) THEN doc.o[k] ELSE JMissing

\* The one field of a one-field struct or struct variant: by key from an
\* object, or by position from an array of length one (serde's visit_seq;
\* a longer array is rejected).
Single(doc, k) ==
    IF HasKey(doc, k) THEN doc.o[k]
    ELSE IF doc.j = "array" /\ Len(doc.a) = 1 THEN doc.a[1]
    ELSE JMissing

\* A struct from the results of decoding its fields: the fields' values if
\* every one decoded, else an error naming those that did not.  Structs of
\* several fields are read from objects; their positional form (an array of
\* all the fields) is not among the documents tried.
Struct(fields) ==
    IF \A k \in DOMAIN fields : fields[k].ok
    THEN Ok([k \in DOMAIN fields |-> fields[k].v])
    ELSE Err({k \in DOMAIN fields : ~fields[k].ok})

\* One variant of an untagged enum, from the results of decoding its fields.
Variant(name, fields) ==
    IF \A k \in DOMAIN fields : fields[k].ok
    THEN Ok([k \in DOMAIN fields \cup {"variant"} |->
                IF k = "variant" THEN name ELSE fields[k].v])
    ELSE Err({k \in DOMAIN fields : ~fields[k].ok})

\* Untagged decoding that keeps the last attempt that succeeded.
LastOk(attempts) ==
    IF \E i \in 1..Len(attempts) : attempts[i].ok
    THEN attempts[CHOOSE i \in 1..Len(attempts) :
                      attempts[i].ok
                      /\ \A k \in (i + 1)..Len(attempts) : ~attempts[k].ok]
    ELSE Err("data did not match any variant of untagged enum")

\* Untagged decoding: the first attempt, in declaration order, that
\* succeeded.
FirstOk(attempts) ==
    IF \E i \in 1..Len(attempts) : attempts[i].ok
    THEN attempts[CHOOSE i \in 1..Len(attempts) :
                      attempts[i].ok /\ \A k \in 1..(i - 1) : ~attempts[k].ok]
    ELSE Err("data did not match any variant of untagged enum")

\* An externally tagged enum of unit variants: the variant's wire name as a
\* string, or the one-key object {name: null}.  names maps each variant to
\* its wire name.
UnitVariant_deserialize(doc, names) ==
    LET token == IF doc.j = "string" THEN Some(doc.s)
                 ELSE IF doc.j = "object" /\ Cardinality(DOMAIN doc.o) = 1
                         /\ (\A k \in DOMAIN doc.o : doc.o[k].j = "null")
                      THEN Some(CHOOSE k \in DOMAIN doc.o : TRUE)
                      ELSE None
    IN  IF token.some /\ \E v \in DOMAIN names : names[v] = token.v
        THEN Ok(CHOOSE v \in DOMAIN names : names[v] = token.v)
        ELSE Err("unknown variant")

\* T's Deserialize and Serialize, by the name of T.
RECURSIVE T_deserialize(_, _)
RECURSIVE T_serialize(_, _)

\* Vec<T>: an array on the wire, decoded element by element; the first
\* failure is the failure of the whole.
Vec_serialize(T, vs) == JArray([i \in 1..Len(vs) |-> T_serialize(T, vs[i])])
Vec_deserialize(T, doc) ==
    IF doc.j = "array"
    THEN Collect([i \in 1..Len(doc.a) |-> T_deserialize(T, doc.a[i])])
    ELSE Err("invalid type: expected a sequence")

\* Option<T> as a struct field: None is written as null; null and an
\* absent key are read as None.
Option_serialize(T, o) == IF o.some THEN T_serialize(T, o.v) ELSE JNull
Option_deserialize(T, doc) ==
    IF doc.j \in {"null", "missing"} THEN Ok(None)
    ELSE OptionOf(T_deserialize(T, doc))

OptionVec_serialize(T, o) == IF o.some THEN Vec_serialize(T, o.v) ELSE JNull
OptionVec_deserialize(T, doc) ==
    IF doc.j \in {"null", "missing"} THEN Ok(None)
    ELSE OptionOf(Vec_deserialize(T, doc))

\* one_or_many without its else branch: a bare value is not wrapped.
one_or_many_bare(T, doc) ==
    Vec_deserialize(T, doc)

\* An array decodes as Vec<T>, anything else as one T wrapped in a Vec.
one_or_many(T, doc) ==
    IF doc.j = "array"
    THEN Vec_deserialize(T, doc)
    ELSE Collect(<<T_deserialize(T, doc)>>)

\* #[serde(default, deserialize_with = "one_or_many")]: an absent key is
\* the empty list, a present one goes through one_or_many.
one_or_many_default(T, doc) ==
    IF doc.j = "missing" THEN Ok(<<>>) ELSE one_or_many(T, doc)

-----------------------------------------------------------------------------
(* core.rs: Text, CrType, CroissantType, BoundingBoxFormat, DataType        *)

\* Text is a newtype over a string; its derived Deserialize takes any
\* string.  The garde length rule is not part of decoding.
Text_serialize(t) == JString(t)
Text_deserialize(doc) ==
    IF doc.j = "string" THEN Ok(doc.s) ELSE Err("invalid type")

\* Display for Id.
Id_fmt(id) == "id:" \o id

CrTypes == {"RecordSet", "Field", "FileObject", "FileSet"}

\* Display for CrType, which is also each variant's serde rename.
CrType_fmt(k) ==
    CASE k = "RecordSet" -> "cr:RecordSet"
      [] k = "Field" -> "cr:Field"
      [] k = "FileObject" -> "cr:FileObject"
      [] k = "FileSet" -> "cr:FileSet"

CrType_serialize(k) == JString(CrType_fmt(k))
CrType_deserialize(doc) ==
    UnitVariant_deserialize(doc, [k \in CrTypes |-> CrType_fmt(k)])

\* CroissantType has the one variant Dataset, renamed sc:Dataset.
CroissantType_serialize(k) == JString("sc:Dataset")
CroissantType_deserialize(doc) ==
    UnitVariant_deserialize(doc, [k \in {"Dataset"} |-> "sc:Dataset"])

BoundingBoxFormats == {"CenterXywh", "Xywh", "Xyxy"}

\* Display for BoundingBoxFormat.
BoundingBoxFormat_fmt(f) ==
    CASE f = "CenterXywh" -> "CenterXYWH"
      [] f = "Xywh" -> "XYWH"
      [] f = "Xyxy" -> "XYXY"

\* BoundingBoxFormat has no serde rename: the wire token is the Rust name.
BoundingBoxFormat_serialize(f) == JString(f)
BoundingBoxFormat_deserialize(doc) ==
    UnitVariant_deserialize(doc, [f \in BoundingBoxFormats |-> f])

\* DataType's unit variants; BoundingBox and CustomIri carry a value.
UnitDataTypes == {"Enumeration", "Boolean", "Integer", "Float", "Text", "Date",
                  "DateTime", "Url", "ImageObject", "Split", "Label"}

Enumeration == [tag |-> "Enumeration"]
Boolean == [tag |-> "Boolean"]
Integer == [tag |-> "Integer"]
Float == [tag |-> "Float"]
TextType == [tag |-> "Text"]
Date == [tag |-> "Date"]
DateTime == [tag |-> "DateTime"]
Url == [tag |-> "Url"]
ImageObject == [tag |-> "ImageObject"]
Split == [tag |-> "Split"]
Label == [tag |-> "Label"]
BoundingBox(f) == [tag |-> "BoundingBox", format |-> f]
CustomIri(t) == [tag |-> "CustomIri", text |-> t]

\* The serde rename written on each unit variant of DataType.
DataType_rename(tag) ==
    CASE tag = "Enumeration" -> "sc:Enumeration"
      [] tag = "Boolean" -> "sc:Boolean"
      [] tag = "Integer" -> "sc:Integer"
      [] tag = "Float" -> "sc:Float"
      [] tag = "Text" -> "sc:Text"
      [] tag = "Date" -> "sc:Date"
      [] tag = "DateTime" -> "sc:DateTime"
      [] tag = "Url" -> "sc:URL"
      [] tag = "ImageObject" -> "sc:ImageObject"
      [] tag = "Split" -> "cr:Split"
      [] tag = "Label" -> "cr:Label"

\* DataType is #[serde(untagged)]: a unit variant is written as the unit
\* (JSON null), whatever its rename says, and a newtype variant as its value.
DataType_serialize(d) ==
    CASE d.tag = "BoundingBox" -> BoundingBoxFormat_serialize(d.format)
      [] d.tag = "CustomIri" -> Text_serialize(d.text)
      [] OTHER -> JNull

\* Untagged decoding tries the variants in declaration order and takes the
\* first that accepts the document: a unit variant accepts only the unit, so
\* Enumeration, the first, takes every null; BoundingBox accepts what
\* BoundingBoxFormat accepts; CustomIri accepts what Text accepts.
DataType_deserialize(doc) ==
    IF doc.j = "null" THEN Ok(Enumeration)
    ELSE IF BoundingBoxFormat_deserialize(doc).ok
    THEN Ok(BoundingBox(BoundingBoxFormat_deserialize(doc).v))
    ELSE IF Text_deserialize(doc).ok
    THEN Ok(CustomIri(Text_deserialize(doc).v))
    ELSE Err("data did not match any variant of untagged enum DataType")

-----------------------------------------------------------------------------
(* core.rs: Ref, FieldRef, Extract, FileProperty, Transform, ValueFormat,   *)
(* SourceRef, FieldSource                                                   *)

Ref_serialize(r) == JObject("@id" :> Text_serialize(r.id))
Ref_deserialize(doc) == Struct([id |-> Text_deserialize(Single(doc, "@id"))])

FieldRef_serialize(r) == JObject("field" :> Ref_serialize(r.field))
FieldRef_deserialize(doc) ==
    Struct([field |-> Ref_deserialize(Single(doc, "field"))])

FileProperties == {"FullPath", "FileName", "Content", "Lines", "LineNumbers"}

FileProperty_rename(p) ==
    CASE p = "FullPath" -> "fullpath"
      [] p = "FileName" -> "filename"
      [] p = "Content" -> "content"
      [] p = "Lines" -> "lines"
      [] p = "LineNumbers" -> "lineNumbers"

FileProperty_serialize(p) == JString(FileProperty_rename(p))
FileProperty_deserialize(doc) ==
    UnitVariant_deserialize(doc, [p \in FileProperties |->
                                      FileProperty_rename(p)])

Column(name) == [variant |-> "Column", name |-> name]
FilePropertyOf(p) == [variant |-> "FileProperty", property |-> p]
JsonPath(expr) == [variant |-> "JsonPath", expr |-> expr]

\* Untagged: each variant is written as its own one-key object.
Extract_serialize(e) ==
    CASE e.variant = "Column" -> JObject("column" :> Text_serialize(e.name))
      [] e.variant = "FileProperty" ->
            JObject("fileProperty" :> FileProperty_serialize(e.property))
      [] e.variant = "JsonPath" -> JObject("jsonPath" :> Text_serialize(e.expr))

Extract_deserialize(doc) ==
    FirstOk(<<
        Variant("Column", [name |-> Text_deserialize(Single(doc, "column"))]),
        Variant("FileProperty",
                [property |->
                    FileProperty_deserialize(Single(doc, "fileProperty"))]),
        Variant("JsonPath", [expr |-> Text_deserialize(Single(doc, "jsonPath"))])
    >>)

Regex(pattern) == [variant |-> "Regex", pattern |-> pattern]
Delimiter(c) == [variant |-> "Delimiter", char |-> c]
JsonQuery(query) == [variant |-> "JsonQuery", query |-> query]

\* A char is a string of exactly one character.
char_deserialize(doc) ==
    IF doc.j = "string" /\ Len(doc.s) = 1 THEN Ok(doc.s) ELSE Err("invalid type")

Transform_serialize(t) ==
    CASE t.variant = "Regex" -> JObject("regex" :> Text_serialize(t.pattern))
      [] t.variant = "Delimiter" -> JObject("delimiter" :> JString(t.char))
      [] t.variant = "JsonQuery" -> JObject("jsonQuery" :> Text_serialize(t.query))

Transform_deserialize(doc) ==
    FirstOk(<<
        Variant("Regex", [pattern |-> Text_deserialize(Single(doc, "regex"))]),
        Variant("Delimiter", [char |-> char_deserialize(Single(doc, "delimiter"))]),
        Variant("JsonQuery", [query |-> Text_deserialize(Single(doc, "jsonQuery"))])
    >>)

\* ValueFormat is tagged by "kind"; Date and Number carry a pattern,
\* BoundingBox a format.
ValueFormat_serialize(f) ==
    CASE f.variant = "Date" ->
            JObject("kind" :> JString("date")
                    @@ "pattern" :> Text_serialize(f.pattern))
      [] f.variant = "Number" ->
            JObject("kind" :> JString("number")
                    @@ "pattern" :> Text_serialize(f.pattern))
      [] f.variant = "BoundingBox" ->
            JObject("kind" :> JString("bbox")
                    @@ "format" :> BoundingBoxFormat_serialize(f.format))

ValueFormat_deserialize(doc) ==
    LET kind == Get(doc, "kind")
    IN  CASE kind = JString("date") ->
                Variant("Date", [pattern |-> Text_deserialize(Get(doc, "pattern"))])
          [] kind = JString("number") ->
                Variant("Number",
                        [pattern |-> Text_deserialize(Get(doc, "pattern"))])
          [] kind = JString("bbox") ->
                Variant("BoundingBox",
                        [format |->
                            BoundingBoxFormat_deserialize(Get(doc, "format"))])
          [] OTHER -> Err("missing or unknown tag kind")

SourceRefs == {"FileObject", "FileSet", "RecordSet"}

SourceRef_key(variant) ==
    CASE variant = "FileObject" -> "fileObject"
      [] variant = "FileSet" -> "fileSet"
      [] variant = "RecordSet" -> "recordSet"

SourceRefOf(variant, id) == [variant |-> variant, ref |-> [id |-> id]]

\* The id a SourceRef carries, whichever its variant (the match written in
\* validate_references and validate_record_set_references).
SourceRef_id(source) == source.ref.id

SourceRef_serialize(s) == SourceRef_key(s.variant) :> Ref_serialize(s.ref)

\* SourceRef is untagged and flattened into FieldSource: it is decoded from
\* the FieldSource object itself, the first variant whose key holds a Ref.
SourceRef_deserialize(doc) ==
    FirstOk(<<
        Variant("FileObject", [ref |-> Ref_deserialize(Get(doc, "fileObject"))]),
        Variant("FileSet", [ref |-> Ref_deserialize(Get(doc, "fileSet"))]),
        Variant("RecordSet", [ref |-> Ref_deserialize(Get(doc, "recordSet"))])
    >>)

FieldSource_serialize(fs) ==
    JObject(SourceRef_serialize(fs.source)
            @@ "extract" :> Option_serialize("Extract", fs.extract)
            @@ "transform" :> OptionVec_serialize("Transform", fs.transform)
            @@ "format" :> Option_serialize("ValueFormat", fs.format))

FieldSource_deserialize(doc) ==
    IF doc.j # "object" THEN Err("invalid type: expected a map")
    ELSE Struct([source |-> SourceRef_deserialize(doc),
                 extract |-> Option_deserialize("Extract", Get(doc, "extract")),
                 transform |->
                     OptionVec_deserialize("Transform", Get(doc, "transform")),
                 format |->
                     Option_deserialize("ValueFormat", Get(doc, "format"))])

-----------------------------------------------------------------------------
(* core.rs: Field, RecordSet                                                *)

bool_deserialize(doc) ==
    IF doc.j = "bool" THEN Ok(doc.b) ELSE Err("invalid type: expected a boolean")

Field_serialize(f) ==
    JObject("@id" :> Text_serialize(f.id)
            @@ "@type" :> CrType_serialize(f.kind)
            @@ "name" :> Text_serialize(f.name)
            @@ "description" :> Text_serialize(f.description)
            @@ "dataType" :> Vec_serialize("DataType", f.data_types)
            @@ "source" :> FieldSource_serialize(f.source)
            @@ "references" :> Vec_serialize("FieldRef", f.references)
            @@ "subField" :> OptionVec_serialize("Field", f.sub_fields)
            @@ "parentField" :> OptionVec_serialize("Text", f.parent_fields)
            @@ "repeated" :> Option_serialize("bool", f.repeated)
            @@ "equivalentProperty" :>
                OptionVec_serialize("Text", f.equivalent_properties))

\* dataType goes through one_or_many and is required; references goes
\* through one_or_many and defaults to the empty list.
Field_deserialize(doc) ==
    IF doc.j # "object" THEN Err("invalid type: expected a map")
    ELSE Struct([id |-> Text_deserialize(Get(doc, "@id")),
                 kind |-> CrType_deserialize(Get(doc, "@type")),
                 name |-> Text_deserialize(Get(doc, "name")),
                 description |-> Text_deserialize(Get(doc, "description")),
                 data_types |-> one_or_many("DataType", Get(doc, "dataType")),
                 source |-> FieldSource_deserialize(Get(doc, "source")),
                 references |->
                     one_or_many_default("FieldRef", Get(doc, "references")),
                 sub_fields |-> OptionVec_deserialize("Field", Get(doc, "subField")),
                 parent_fields |->
                     OptionVec_deserialize("Text", Get(doc, "parentField")),
                 repeated |-> Option_deserialize("bool", Get(doc, "repeated")),
                 equivalent_properties |->
                     OptionVec_deserialize("Text",
                                           Get(doc, "equivalentProperty"))])

RecordSet_serialize(rs) ==
    JObject("@id" :> Text_serialize(rs.id)
            @@ "@type" :> CrType_serialize(rs.kind)
            @@ "key" :> Vec_serialize("Ref", rs.keys)
            @@ "field" :> Vec_serialize("Field", rs.fields)
            @@ "dataType" :> Vec_serialize("DataType", rs.record_types))

\* key and dataType go through one_or_many and default to the empty list.
RecordSet_deserialize(doc) ==
    IF doc.j # "object" THEN Err("invalid type: expected a map")
    ELSE Struct([id |-> Text_deserialize(Get(doc, "@id")),
                 kind |-> CrType_deserialize(Get(doc, "@type")),
                 keys |-> one_or_many_default("Ref", Get(doc, "key")),
                 fields |-> Vec_deserialize("Field", Get(doc, "field")),
                 record_types |->
                     one_or_many_default("DataType", Get(doc, "dataType"))])

-----------------------------------------------------------------------------
(* core.rs: Resource, FileObject, FileSet, Distribution, Context, Metadata  *)

\* Display for Resource.
Resource_fmt(resource) ==
    CASE resource.type = "FileObject" -> "fileObject"
      [] resource.type = "FileSet" -> "fileSet"

FileObject_serialize(o) ==
    "@id" :> Text_serialize(o.id)
    @@ "name" :> Text_serialize(o.name)
    @@ "contentUrl" :> Text_serialize(o.content_url)
    @@ "contentSize" :> Option_serialize("Text", o.content_size)
    @@ "encodingFormat" :> Text_serialize(o.encoding_format)
    @@ "sha256" :> Option_serialize("Text", o.sha256)

FileObject_deserialize(doc) ==
    Struct([type |-> Ok("FileObject"),
            id |-> Text_deserialize(Get(doc, "@id")),
            name |-> Text_deserialize(Get(doc, "name")),
            content_url |-> Text_deserialize(Get(doc, "contentUrl")),
            content_size |-> Option_deserialize("Text", Get(doc, "contentSize")),
            encoding_format |-> Text_deserialize(Get(doc, "encodingFormat")),
            sha256 |-> Option_deserialize("Text", Get(doc, "sha256"))])

FileSet_serialize(fs) ==
    "@id" :> Text_serialize(fs.id)
    @@ "containedIn" :> Vec_serialize("Text", fs.sources)
    @@ "encodingFormat" :> Text_serialize(fs.encoding_format)
    @@ "includes" :> Vec_serialize("Text", fs.includes)
    @@ "excludes" :> Vec_serialize("Text", fs.excludes)

FileSet_deserialize(doc) ==
    Struct([type |-> Ok("FileSet"),
            id |-> Text_deserialize(Get(doc, "@id")),
            sources |-> Vec_deserialize("Text", Get(doc, "containedIn")),
            encoding_format |-> Text_deserialize(Get(doc, "encodingFormat")),
            includes |-> Vec_deserialize("Text", Get(doc, "includes")),
            excludes |-> Vec_deserialize("Text", Get(doc, "excludes"))])

\* Resource is tagged by "@type" and flattened into Distribution, so a
\* distribution is one object holding the tag and the variant's fields.
Distribution_serialize(d) ==
    IF d.resource.type = "FileObject"
    THEN JObject("@type" :> JString("cr:FileObject")
                 @@ FileObject_serialize(d.resource))
    ELSE JObject("@type" :> JString("cr:FileSet")
                 @@ FileSet_serialize(d.resource))

Distribution_deserialize(doc) ==
    LET tag == Get(doc, "@type")
    IN  CASE tag = JString("cr:FileObject") ->
                Struct([resource |-> FileObject_deserialize(doc)])
          [] tag = JString("cr:FileSet") ->
                Struct([resource |-> FileSet_deserialize(doc)])
          [] OTHER -> Err("missing or unknown tag @type")

\* DataContext and DataTypeContext have the same shape.
DataContext_serialize(c) ==
    JObject("@id" :> Text_serialize(c.id) @@ "@type" :> Text_serialize(c.type))
DataContext_deserialize(doc) ==
    Struct([id |-> Text_deserialize(Get(doc, "@id")),
            type |-> Text_deserialize(Get(doc, "@type"))])

Context_serialize(c) ==
    JObject("@language" :> Text_serialize(c.language)
            @@ "@vocab" :> Text_serialize(c.vocab)
            @@ "sc" :> Text_serialize(c.sc)
            @@ "cr" :> Text_serialize(c.cr)
            @@ "dct" :> Text_serialize(c.dct)
            @@ "citeAs" :> Text_serialize(c.cite_as)
            @@ "column" :> Text_serialize(c.column)
            @@ "conformsTo" :> Text_serialize(c.conforms_to)
            @@ "data" :> DataContext_serialize(c.data)
            @@ "dataType" :> DataContext_serialize(c.data_type))

Context_deserialize(doc) ==
    Struct([language |-> Text_deserialize(Get(doc, "@language")),
            vocab |-> Text_deserialize(Get(doc, "@vocab")),
            sc |-> Text_deserialize(Get(doc, "sc")),
            cr |-> Text_deserialize(Get(doc, "cr")),
            dct |-> Text_deserialize(Get(doc, "dct")),
            cite_as |-> Text_deserialize(Get(doc, "citeAs")),
            column |-> Text_deserialize(Get(doc, "column")),
            conforms_to |-> Text_deserialize(Get(doc, "conformsTo")),
            data |-> DataContext_deserialize(Get(doc, "data")),
            data_type |-> DataContext_deserialize(Get(doc, "dataType"))])

Metadata_serialize(m) ==
    JObject("@context" :> Context_serialize(m.context)
            @@ "@type" :> CroissantType_serialize(m.kind)
            @@ "name" :> Text_serialize(m.name)
            @@ "description" :> Text_serialize(m.description)
            @@ "conformsTo" :> Text_serialize(m.conforms_to)
            @@ "datePublished" :> Option_serialize("Text", m.date_published)
            @@ "version" :> Text_serialize(m.version)
            @@ "distribution" :> Vec_serialize("Distribution", m.distribution)
            @@ "recordSet" :> Vec_serialize("RecordSet", m.record_sets))

Metadata_deserialize(doc) ==
    IF doc.j # "object" THEN Err("invalid type: expected a map")
    ELSE Struct([context |-> Context_deserialize(Get(doc, "@context")),
                 kind |-> CroissantType_deserialize(Get(doc, "@type")),
                 name |-> Text_deserialize(Get(doc, "name")),
                 description |-> Text_deserialize(Get(doc, "description")),
                 conforms_to |-> Text_deserialize(Get(doc, "conformsTo")),
                 date_published |->
                     Option_deserialize("Text", Get(doc, "datePublished")),
                 version |-> Text_deserialize(Get(doc, "version")),
                 distribution |->
                     Vec_deserialize("Distribution", Get(doc, "distribution")),
                 record_sets |->
                     Vec_deserialize("RecordSet", Get(doc, "recordSet"))])

T_deserialize(T, doc) ==
    CASE T = "Text" -> Text_deserialize(doc)
      [] T = "bool" -> bool_deserialize(doc)
      [] T = "DataType" -> DataType_deserialize(doc)
      [] T = "Ref" -> Ref_deserialize(doc)
      [] T = "FieldRef" -> FieldRef_deserialize(doc)
      [] T = "Extract" -> Extract_deserialize(doc)
      [] T = "Transform" -> Transform_deserialize(doc)
      [] T = "ValueFormat" -> ValueFormat_deserialize(doc)
      [] T = "Field" -> Field_deserialize(doc)
      [] T = "RecordSet" -> RecordSet_deserialize(doc)
      [] T = "Distribution" -> Distribution_deserialize(doc)

T_serialize(T, v) ==
    CASE T = "Text" -> Text_serialize(v)
      [] T = "bool" -> JBool(v)
      [] T = "DataType" -> DataType_serialize(v)
      [] T = "Ref" -> Ref_serialize(v)
      [] T = "FieldRef" -> FieldRef_serialize(v)
      [] T = "Extract" -> Extract_serialize(v)
      [] T = "Transform" -> Transform_serialize(v)
      [] T = "ValueFormat" -> ValueFormat_serialize(v)
      [] T = "Field" -> Field_serialize(v)
      [] T = "RecordSet" -> RecordSet_serialize(v)
      [] T = "Distribution" -> Distribution_serialize(v)

-----------------------------------------------------------------------------
(* The codec's inputs: trees to encode and wire documents to decode         *)

\* The longest list tried for a one-or-many field.
MaxList == 2

\* The values default_context() sets, with dct filled in.
SomeContext ==
    [language |-> "en", vocab |-> "https://schema.org/",
     sc |-> "https://schema.org/", cr |-> "http://purl.org/dc/terms/",
     dct |-> "http://purl.org/dc/terms/", cite_as |-> "cr:citeAs",
     column |-> "cr:column", conforms_to |-> "dct:conforms_to",
     data |-> [id |-> "cr:data", type |-> "@json"],
     data_type |-> [id |-> "cr:DataType", type |-> "@vocal"]]

SomeFileObject ==
    [type |-> "FileObject", id |-> "data.csv", name |-> "data.csv",
     content_url |-> "data.csv", content_size |-> Some("12 B"),
     encoding_format |-> "text/csv", sha256 |-> None]

SomeFileSet ==
    [type |-> "FileSet", id |-> "files", sources |-> <<"data.csv">>,
     encoding_format |-> "text/csv", includes |-> <<"*.csv">>,
     excludes |-> <<>>]

SomeSource ==
    [source |-> SourceRefOf("FileObject", "data.csv"),
     extract |-> Some(Column("id")), transform |-> Some(<<Delimiter(",")>>),
     format |-> Some([variant |-> "Number", pattern |-> "0"])]

FieldOf(id, data_types, references, sub_fields) ==
    [id |-> id, kind |-> "Field", name |-> "id", description |-> "Field for id",
     data_types |-> data_types, source |-> SomeSource,
     references |-> references, sub_fields |-> sub_fields,
     parent_fields |-> None, repeated |-> Some(FALSE),
     equivalent_properties |-> None]

RecordSetOf(keys, fields, record_types) ==
    [id |-> "main", kind |-> "RecordSet", keys |-> keys, fields |-> fields,
     record_types |-> record_types]

MetadataOf(record_sets) ==
    [context |-> SomeContext, kind |-> "Dataset", name |-> "d",
     description |-> "a dataset", conforms_to |-> "cr:1.0",
     date_published |-> None, version |-> "1.0.0",
     distribution |-> <<[resource |-> SomeFileObject],
                        [resource |-> SomeFileSet]>>,
     record_sets |-> record_sets]

IriTexts == {"wd:Q1", "sc:Integer", "Xywh"}

DataTypes ==
    {[tag |-> t] : t \in UnitDataTypes}
    \cup {BoundingBox(f) : f \in BoundingBoxFormats}
    \cup {CustomIri(t) : t \in IriTexts}

Refs == {[id |-> "main"], [id |-> "main/id"]}
FieldRefs == {[field |-> r] : r \in Refs}

\* Trees that differ in one of the four one-or-many lists: a field's
\* data_types (never empty) and references, a record set's keys and
\* record_types; the field of the first group owns a sub-field.
Trees ==
    {MetadataOf(<<RecordSetOf(<<[id |-> "main"]>>,
                     <<FieldOf("main/id", dts, <<>>,
                          Some(<<FieldOf("main/id/sub", dts, <<>>, None)>>))>>,
                     <<>>)>>) :
        dts \in SeqsUpTo(DataTypes, MaxList) \ {<<>>}}
    \cup {MetadataOf(<<RecordSetOf(<<>>,
                         <<FieldOf("main/id", <<Integer>>, refs, None)>>,
                         <<>>)>>) :
            refs \in SeqsUpTo(FieldRefs, MaxList)}
    \cup {MetadataOf(<<RecordSetOf(keys,
                         <<FieldOf("main/id", <<TextType>>, <<>>, None)>>,
                         rts)>>) :
            keys \in SeqsUpTo(Refs, MaxList),
            rts \in SeqsUpTo({Split, Label, CustomIri("wd:Q1")}, MaxList)}

\* What may stand on the wire where one element of a list is expected.
WireTokens ==
    {DataType_rename(t) : t \in UnitDataTypes}
    \cup BoundingBoxFormats \cup {"cr:BoundingBox", "wd:Q1", ""}

DataTypeDocs ==
    {JString(t) : t \in WireTokens}
    \cup {JNull, JBool(TRUE), JObject("Xywh" :> JNull)}

RefDocs ==
    {Ref_serialize(r) : r \in Refs}
    \cup {JString("main"), JNull, JArray(<<JString("main")>>)}

FieldRefDocs ==
    {FieldRef_serialize(r) : r \in FieldRefs}
    \cup {JString("main/id"), JNull}

\* A list-valued key on the wire: bare element or array of elements.
OneOrManyDocs(docs) == docs \cup {JArray(a) : a \in SeqsUpTo(docs, MaxList)}

\* The four one-or-many keys, each with its element type.
ListKeys == {"Field.dataType", "Field.references", "RecordSet.key",
             "RecordSet.dataType"}

ListKey_T(key) ==
    CASE key = "Field.dataType" -> "DataType"
      [] key = "Field.references" -> "FieldRef"
      [] key = "RecordSet.key" -> "Ref"
      [] key = "RecordSet.dataType" -> "DataType"

\* The wire value of a list key in the first record set (and its first
\* field) of a document, and the document with that value replaced.
WireList(doc, key) ==
    LET rs == doc.o["recordSet"].a[1]
    IN  CASE key = "Field.dataType" -> rs.o["field"].a[1].o["dataType"]
          [] key = "Field.references" -> rs.o["field"].a[1].o["references"]
          [] key = "RecordSet.key" -> rs.o["key"]
          [] key = "RecordSet.dataType" -> rs.o["dataType"]

WithWireList(doc, key, w) ==
    CASE key = "Field.dataType" ->
            [doc EXCEPT !.o["recordSet"].a[1].o["field"].a[1].o["dataType"] = w]
      [] key = "Field.references" ->
            [doc EXCEPT !.o["recordSet"].a[1].o["field"].a[1].o["references"] = w]
      [] key = "RecordSet.key" ->
            [doc EXCEPT !.o["recordSet"].a[1].o["key"] = w]
      [] key = "RecordSet.dataType" ->
            [doc EXCEPT !.o["recordSet"].a[1].o["dataType"] = w]

\* The decoded list of a list key in a decoded tree.
TreeList(tree, key) ==
    LET rs == tree.record_sets[1]
    IN  CASE key = "Field.dataType" -> rs.fields[1].data_types
          [] key = "Field.references" -> rs.fields[1].references
          [] key = "RecordSet.key" -> rs.keys
          [] key = "RecordSet.dataType" -> rs.record_types

SomeDocument ==
    Metadata_serialize(
        MetadataOf(<<RecordSetOf(<<[id |-> "main"]>>,
                        <<FieldOf("main/id", <<CustomIri("wd:Q1")>>,
                                  <<[field |-> [id |-> "main"]]>>, None)>>,
                        <<CustomIri("wd:Q1")>>)>>))

\* Documents that differ from SomeDocument in one list key.
Documents ==
    {WithWireList(SomeDocument, "Field.dataType", w) :
        w \in OneOrManyDocs(DataTypeDocs)}
    \cup {WithWireList(SomeDocument, "RecordSet.dataType", w) :
            w \in OneOrManyDocs({JString("sc:Text"), JString("Xyxy"),
                                 JNull, JBool(FALSE)})}
    \cup {WithWireList(SomeDocument, "RecordSet.key", w) :
            w \in OneOrManyDocs(RefDocs)}
    \cup {WithWireList(SomeDocument, "Field.references", w) :
            w \in OneOrManyDocs(FieldRefDocs)}

\* Documents that differ from SomeDocument in one Text-typed value, which is
\* the empty string: the dataset's name and description, a file object's
\* @id and encodingFormat, the record set's @id, the field's name, the
\* column it extracts and the @id it is sourced from.
EmptyTextDocuments ==
    {[SomeDocument EXCEPT !.o["name"] = JString("")],
     [SomeDocument EXCEPT !.o["description"] = JString("")],
     [SomeDocument EXCEPT !.o["distribution"].a[1].o["@id"] = JString("")],
     [SomeDocument EXCEPT
         !.o["distribution"].a[1].o["encodingFormat"] = JString("")],
     [SomeDocument EXCEPT !.o["recordSet"].a[1].o["@id"] = JString("")],
     [SomeDocument EXCEPT
         !.o["recordSet"].a[1].o["field"].a[1].o["name"] = JString("")],
     [SomeDocument EXCEPT
         !.o["recordSet"].a[1].o["field"].a[1].o["source"].o["extract"]
              .o["column"] = JString("")],
     [SomeDocument EXCEPT
         !.o["recordSet"].a[1].o["field"].a[1].o["source"].o["fileObject"]
              .o["@id"] = JString("")]}

-----------------------------------------------------------------------------
(* The codec as a state machine: serde_json::to_string on a tree, and       *)
(* serde_json::from_str on a document (validate_file)                       *)

InitCodec ==
    /\ sample = NoValue /\ inferred = NoValue
    /\ metadata = NoValue /\ issues = NoValue
    /\ csv = NoValue /\ generated = NoValue /\ columns = NoValue
    /\ written = NoValue
    /\ reported = NoValue /\ previous = NoValue
    /\ decoded = NoValue
    /\ \/ pc = "encode" /\ value \in Trees /\ json = NoValue
       \/ /\ pc = "decode" /\ value = NoValue
          /\ json \in Documents \cup EmptyTextDocuments

Serialize ==
    /\ pc = "encode"
    /\ json' = Metadata_serialize(value)
    /\ pc' = "decode"
    /\ UNCHANGED <<value, decoded, sample, inferred, metadata, issues, csv,
                   generated, columns, written, reported,
                   previous>>

Deserialize ==
    /\ pc = "decode"
    /\ decoded' = Metadata_deserialize(json)
    /\ pc' = "done"
    /\ UNCHANGED <<value, json, sample, inferred, metadata, issues, csv,
                   generated, columns, written, reported,
                   previous>>

NextCodec == Serialize \/ Deserialize

SpecCodec == InitCodec /\ [][NextCodec]_vars


-----------------------------------------------------------------------------
(* Properties of the codec                                                  *)

\* C1: decoding the JSON produced by encoding a tree yields that tree, for
\* every DataType variant in a field's dataType list.
C1_RoundTrip ==
    (pc = "done" /\ value # NoValue) => decoded = Ok(value)

\* C2: a recognised bare token (sc:Enumeration ... cr:Label) as a field's
\* dataType decodes to its own named variant, and any other string decodes
\* to CustomIri carrying that string.
C2_TokenDecoding ==
    (pc = "done" /\ WireList(json, "Field.dataType").j = "string") =>
        LET token == WireList(json, "Field.dataType").s
        IN  /\ decoded.ok
            /\ \A t \in UnitDataTypes :
                    token = DataType_rename(t) =>
                        TreeList(decoded.v, "Field.dataType") = <<[tag |-> t]>>
            /\ (\A t \in UnitDataTypes : token # DataType_rename(t)) =>
                    TreeList(decoded.v, "Field.dataType") = <<CustomIri(token)>>

\* Every element of an array decodes as a T.
ElementsOk(T, w) == \A i \in 1..Len(w.a) : T_deserialize(T, w.a[i]).ok

\* The list a wire value w stands for under the one-or-many rule, written
\* without one_or_many: an array is its elements in order, anything else is
\* the one element.
ListOk(T, w) ==
    IF w.j = "array" THEN ElementsOk(T, w) ELSE T_deserialize(T, w).ok
ListOf(T, w) ==
    IF w.j = "array"
    THEN [i \in 1..Len(w.a) |-> T_deserialize(T, w.a[i]).v]
    ELSE <<T_deserialize(T, w).v>>

\* Encoding writes each of the four lists as an array of the list's length.
EncodesArrays ==
    (pc \in {"decode", "done"} /\ value # NoValue) =>
        \A key \in ListKeys :
            /\ WireList(json, key).j = "array"
            /\ Len(WireList(json, key).a) = Len(TreeList(value, key))

\* A document (sound outside the four keys) decodes when each of the four
\* keys holds a list, and then each decoded list is the elements in array
\* order, or the one bare element.
DecodesLists ==
    pc = "done" =>
        /\ decoded.ok <=>
                \A key \in ListKeys : ListOk(ListKey_T(key), WireList(json, key))
        /\ decoded.ok =>
                \A key \in ListKeys :
                    TreeList(decoded.v, key) =
                        ListOf(ListKey_T(key), WireList(json, key))

\* C3 as stated: for each of the four list-valued keys and every element
\* value X, the bare X and the array [X] decode to the same single-element
\* list; an array decodes to its elements in order; encoding writes an array.
C3_OneOrMany_AsStated ==
    /\ EncodesArrays
    /\ pc = "done" =>
            \A key \in ListKeys :
                LET w == WireList(json, key)
                    T == ListKey_T(key)
                IN  T_deserialize(T, w).ok =>
                        /\ decoded =
                            Metadata_deserialize(
                                WithWireList(json, key, JArray(<<w>>)))
                        /\ decoded.ok =>
                            TreeList(decoded.v, key) = <<T_deserialize(T, w).v>>

\* C3: for each of the four list-valued keys and every element value X that
\* is not itself a JSON array, the bare X and the array [X] decode alike, to
\* the single-element list of X when X decodes; an array decodes to its
\* elements in order; encoding writes an array.
C3_OneOrMany ==
    /\ EncodesArrays
    /\ DecodesLists
    /\ pc = "done" =>
            \A key \in ListKeys :
                LET w == WireList(json, key)
                    T == ListKey_T(key)
                IN  w.j # "array" =>
                        /\ decoded =
                            Metadata_deserialize(
                                WithWireList(json, key, JArray(<<w>>)))
                        /\ (decoded.ok /\ T_deserialize(T, w).ok) =>
                            TreeList(decoded.v, key) = <<T_deserialize(T, w).v>>

\* A bare token was decoded into a one-element list, next to keys written
\* as arrays.
C3_Witness ==
    /\ pc = "done"
    /\ WireList(json, "Field.dataType") = JString("wd:Q1")
    /\ WireList(json, "RecordSet.key").j = "array"
    /\ decoded.ok
    /\ TreeList(decoded.v, "Field.dataType") = <<CustomIri("wd:Q1")>>
    /\ TreeList(decoded.v, "RecordSet.key") = <<[id |-> "main"]>>

-----------------------------------------------------------------------------
(* core.rs: impl From<&String> for DataType (scalar type inference)         *)
(* A sample is a sequence of one-character strings, so that the parsers can *)
(* be written over its characters.                                          *)

DigitChars == <<"0", "1", "2", "3", "4", "5", "6", "7", "8", "9">>
Digits == Range(DigitChars)
DigitVal(c) == (CHOOSE d \in 1..Len(DigitChars) : DigitChars[d] = c) - 1

UpperChars == <<"A", "B", "C", "D", "E", "F", "G", "H", "I", "J", "K", "L", "M",
                "N", "O", "P", "Q", "R", "S", "T", "U", "V", "W", "X", "Y", "Z">>
LowerChars == <<"a", "b", "c", "d", "e", "f", "g", "h", "i", "j", "k", "l", "m",
                "n", "o", "p", "q", "r", "s", "t", "u", "v", "w", "x", "y", "z">>

\* u8::to_ascii_lowercase, character by character.
to_ascii_lowercase(s) ==
    [i \in 1..Len(s) |->
        IF s[i] \in Range(UpperChars)
        THEN LowerChars[CHOOSE k \in 1..Len(UpperChars) : UpperChars[k] = s[i]]
        ELSE s[i]]

eq_ignore_ascii_case(s, word) == to_ascii_lowercase(s) = to_ascii_lowercase(word)

WhiteSpace == {" ", "\t", "\n", "\r"}

\* str::trim_start, str::trim.
trim_start(s) ==
    IF \A i \in 1..Len(s) : s[i] \in WhiteSpace THEN <<>>
    ELSE SubSeq(s, CHOOSE i \in 1..Len(s) :
                      s[i] \notin WhiteSpace
                      /\ \A k \in 1..(i - 1) : s[k] \in WhiteSpace,
                Len(s))

trim(s) ==
    LET t == trim_start(s)
    IN  IF t = <<>> THEN <<>>
        ELSE SubSeq(t, 1, CHOOSE i \in 1..Len(t) :
                              t[i] \notin WhiteSpace
                              /\ \A k \in (i + 1)..Len(t) : t[k] \in WhiteSpace)

AllDigits(s) == \A i \in 1..Len(s) : s[i] \in Digits

\* s without one leading sign, if it has one.
Unsigned(s) == IF s # <<>> /\ s[1] \in {"+", "-"} THEN Tail(s) ELSE s

\* The digits of i64::MAX and of the magnitude of i64::MIN.
I64MaxDigits == <<"9", "2", "2", "3", "3", "7", "2", "0", "3", "6",
                  "8", "5", "4", "7", "7", "5", "8", "0", "7">>
I64MinDigits == <<"9", "2", "2", "3", "3", "7", "2", "0", "3", "6",
                  "8", "5", "4", "7", "7", "5", "8", "0", "8">>

\* a <= b for digit strings of one length.
DigitsLeq(a, b) ==
    \/ a = b
    \/ \E i \in 1..Len(a) :
          /\ DigitVal(a[i]) < DigitVal(b[i])
          /\ \A k \in 1..(i - 1) : a[k] = b[k]

\* The magnitude fits: compared digit by digit, for the value itself
\* is wider than TLC's integers.
FitsI64(digits, limit) ==
    LET sig == IF \A i \in 1..Len(digits) : digits[i] = "0" THEN <<"0">>
               ELSE SubSeq(digits, CHOOSE i \in 1..Len(digits) :
                                      digits[i] # "0"
                                      /\ \A k \in 1..(i - 1) : digits[k] = "0",
                           Len(digits))
    IN  \/ Len(sig) < Len(limit)
        \/ Len(sig) = Len(limit) /\ DigitsLeq(sig, limit)

\* trimmed.parse::<i64>().is_ok(): an optional sign, then one or more
\* decimal digits whose value is within i64.
parse_i64_is_ok(s) ==
    /\ Unsigned(s) # <<>>
    /\ AllDigits(Unsigned(s))
    /\ FitsI64(Unsigned(s),
               IF s[1] = "-" THEN I64MinDigits ELSE I64MaxDigits)

\* Digit+ | Digit+ '.' Digit* | Digit* '.' Digit+
IsDecimal(s) ==
    /\ \A i \in 1..Len(s) : s[i] \in Digits \cup {"."}
    /\ Cardinality({i \in 1..Len(s) : s[i] = "."}) <= 1
    /\ \E i \in 1..Len(s) : s[i] \in Digits

\* trimmed.parse::<f64>().is_ok(), by the grammar of f64's FromStr:
\* Sign? ('inf' | 'infinity' | 'nan' | Number), Number a decimal with an
\* optional exponent 'e' Sign? Digit+, letters in either case.  Any
\* magnitude parses (to an infinity or to zero at the extremes).
parse_f64_is_ok(s) ==
    LET body == to_ascii_lowercase(Unsigned(s))
        exps == {i \in 1..Len(body) : body[i] = "e"}
    IN  \/ body \in {<<"i", "n", "f">>, <<"n", "a", "n">>,
                     <<"i", "n", "f", "i", "n", "i", "t", "y">>}
        \/ exps = {} /\ IsDecimal(body)
        \/ \E i \in exps :
              /\ IsDecimal(SubSeq(body, 1, i - 1))
              /\ Unsigned(SubSeq(body, i + 1, Len(body))) # <<>>
              /\ AllDigits(Unsigned(SubSeq(body, i + 1, Len(body))))

\* The value of a short digit string.
RECURSIVE NumberOf(_)
NumberOf(digits) ==
    IF digits = <<>> THEN 0
    ELSE 10 * NumberOf(SubSeq(digits, 1, Len(digits) - 1))
         + DigitVal(digits[Len(digits)])

\* chrono's scan::number(s, min, max): the longest run of leading digits, at
\* most max of them and at least min, and what follows it.
scan_number(s, min, max) ==
    LET n == CHOOSE n \in 0..Len(s) :
                 /\ n <= max
                 /\ AllDigits(SubSeq(s, 1, n))
                 /\ (n = Len(s) \/ n = max \/ s[n + 1] \notin Digits)
    IN  IF n < min THEN Err("invalid")
        ELSE Ok([digits |-> SubSeq(s, 1, n), rest |-> SubSeq(s, n + 1, Len(s))])

\* A literal of the format string: the input must go on with it.
scan_literal(r, c) ==
    IF r.ok /\ r.v.rest # <<>> /\ r.v.rest[1] = c
    THEN Ok([r.v EXCEPT !.rest = Tail(r.v.rest)])
    ELSE Err("invalid")

is_leap_year(y) == y % 4 = 0 /\ (y % 100 # 0 \/ y % 400 = 0)

DaysIn(y, m) ==
    CASE m \in {4, 6, 9, 11} -> 30
      [] m = 2 -> IF is_leap_year(y) THEN 29 ELSE 28
      [] OTHER -> 31

\* NaiveDate::from_ymd_opt(y, m, d).is_some(), from the digits read: a year
\* within NaiveDate's range (-262143..262142, six digits at most) and a day
\* of that year's calendar.
from_ymd_is_some(negative, year, month, day) ==
    /\ Len(year) <= 6
    /\ NumberOf(year) <= (IF negative THEN 262143 ELSE 262142)
    /\ NumberOf(month) \in 1..12
    /\ NumberOf(day) \in
          1..DaysIn(IF negative THEN 0 - NumberOf(year) ELSE NumberOf(year),
                    NumberOf(month))

\* NaiveDate::parse_from_str(trimmed, "%Y-%m-%d").is_ok().  Each numeric item
\* skips leading white space; %Y reads one to four digits, or any number of
\* digits after an explicit sign; %m and %d read one or two digits; nothing
\* may follow the day; the three numbers must name a calendar day.
parse_date_is_ok(s) ==
    LET s1 == trim_start(s)
        signed == s1 # <<>> /\ s1[1] \in {"+", "-"}
        year == IF signed THEN scan_number(Tail(s1), 1, Len(s1))
                ELSE scan_number(s1, 1, 4)
        dash1 == scan_literal(year, "-")
        month == IF dash1.ok THEN scan_number(trim_start(dash1.v.rest), 1, 2)
                 ELSE dash1
        dash2 == scan_literal(month, "-")
        day == IF dash2.ok THEN scan_number(trim_start(dash2.v.rest), 1, 2)
               ELSE dash2
    IN  /\ day.ok
        /\ day.v.rest = <<>>
        /\ from_ymd_is_some(signed /\ s1[1] = "-", year.v.digits,
                            month.v.digits, day.v.digits)

\* The characters of s at the given positions are digits naming a number
\* within lo..hi.
Within(s, from, to, lo, hi) ==
    /\ AllDigits(SubSeq(s, from, to))
    /\ NumberOf(SubSeq(s, from, to)) \in lo..hi

\* The zone of an RFC 3339 timestamp: Z, or a signed hh:mm.
IsOffset(z) ==
    \/ to_ascii_lowercase(z) = <<"z">>
    \/ /\ Len(z) = 6
       /\ z[1] \in {"+", "-"}
       /\ z[4] = ":"
       /\ Within(z, 2, 3, 0, 23)
       /\ Within(z, 5, 6, 0, 59)

\* What follows the seconds: an optional fraction of one or more digits,
\* then the zone.
IsFractionAndOffset(t) ==
    \/ IsOffset(t)
    \/ /\ t # <<>> /\ t[1] = "."
       /\ \E n \in 2..Len(t) :
             /\ AllDigits(SubSeq(t, 2, n))
             /\ IsOffset(SubSeq(t, n + 1, Len(t)))

\* DateTime::parse_from_rfc3339(trimmed).is_ok():
\* YYYY-MM-DD, one of T, t or a space, hh:mm:ss (ss up to 60 for a leap
\* second), an optional fraction, and the zone.
parse_from_rfc3339_is_ok(s) ==
    /\ Len(s) >= 20
    /\ s[5] = "-" /\ s[8] = "-" /\ s[14] = ":" /\ s[17] = ":"
    /\ s[11] \in {"T", "t", " "}
    /\ AllDigits(SubSeq(s, 1, 4))
    /\ AllDigits(SubSeq(s, 6, 7))
    /\ AllDigits(SubSeq(s, 9, 10))
    /\ from_ymd_is_some(FALSE, SubSeq(s, 1, 4), SubSeq(s, 6, 7), SubSeq(s, 9, 10))
    /\ Within(s, 12, 13, 0, 23)
    /\ Within(s, 15, 16, 0, 59)
    /\ Within(s, 18, 19, 0, 60)
    /\ IsFractionAndOffset(SubSeq(s, 20, Len(s)))

\* DataType::from with the first two tests swapped: float before integer.
DataType_from_float_first(value_) ==
    LET trimmed == trim(value_)
    IN  IF parse_f64_is_ok(trimmed) THEN Float
        ELSE IF parse_i64_is_ok(trimmed) THEN Integer
        ELSE IF eq_ignore_ascii_case(trimmed, <<"t", "r", "u", "e">>)
                \/ eq_ignore_ascii_case(trimmed, <<"f", "a", "l", "s", "e">>)
        THEN Boolean
        ELSE IF parse_date_is_ok(trimmed) THEN Date
        ELSE IF parse_from_rfc3339_is_ok(trimmed) THEN Date
        ELSE TextType

\* DataType::from(&String): the first test the trimmed sample passes.
DataType_from(value_) ==
    LET trimmed == trim(value_)
    IN  IF parse_i64_is_ok(trimmed) THEN Integer
        ELSE IF parse_f64_is_ok(trimmed) THEN Float
        ELSE IF eq_ignore_ascii_case(trimmed, <<"t", "r", "u", "e">>)
                \/ eq_ignore_ascii_case(trimmed, <<"f", "a", "l", "s", "e">>)
        THEN Boolean
        ELSE IF parse_date_is_ok(trimmed) THEN Date
        ELSE IF parse_from_rfc3339_is_ok(trimmed) THEN Date
        ELSE TextType

-----------------------------------------------------------------------------
(* Inference as a state machine: a sample cell is given, DataType::from     *)
(* classifies it                                                            *)

\* The longest sample built from Alphabet.
MaxStrLen == 3

Alphabet == {"7", "0", "-", "+", ".", "e", " "}

\* Samples written out: the spec's examples and the parsers' edge cases.
Samples ==
    {
     <<"4", "2">>,
     <<"-", "1", "7">>,
     <<"+", "5">>,
     <<"3", ".", "1", "4">>,
     <<"1", "e", "5">>,
     <<".", "5">>,
     <<"5", ".">>,
     <<"i", "n", "f">>,
     <<"N", "a", "N">>,
     <<"-", "I", "n", "f", "i", "n", "i", "t", "y">>,
     <<"t", "r", "u", "e">>,
     <<"F", "A", "L", "S", "E">>,
     <<"T", "r", "U", "e">>,
     <<"2", "0", "2", "3", "-", "0", "5", "-", "0", "1">>,
     <<"2", "0", "2", "3", "-", "5", "-", "1">>,
     <<"2", "0", "2", "3", "-", "0", "2", "-", "3", "0">>,
     <<"2", "0", "2", "4", "-", "0", "2", "-", "2", "9">>,
     <<"-", "0", "0", "4", "4", "-", "0", "3", "-", "1", "5">>,
     <<"2", "0", "2", "3", "-", "0", "5", "-", "0", "1", "T", "1", "0", ":", "0", "0", ":", "0", "0", "Z">>,
     <<"2", "0", "2", "3", "-", "0", "5", "-", "0", "1", "t", "1", "0", ":", "0", "0", ":", "0", "0", ".", "2", "5", "+", "0", "2", ":", "0", "0">>,
     <<"2", "0", "2", "3", "-", "0", "5", "-", "0", "1", " ", "1", "0", ":", "0", "0", ":", "0", "0", "-", "0", "8", ":", "0", "0">>,
     <<"2", "0", "2", "3", "-", "1", "3", "-", "0", "1", "T", "1", "0", ":", "0", "0", ":", "0", "0", "Z">>,
     <<"2", "0", "2", "3", "-", "0", "5", "-", "0", "1", "T", "1", "0", ":", "0", "0", ":", "0", "0">>,
     <<"h", "e", "l", "l", "o">>,
     <<>>,
     <<" ", "7", " ">>,
     <<" ", " ">>,
     <<"1", ",", "5">>,
     <<"9", "2", "2", "3", "3", "7", "2", "0", "3", "6", "8", "5", "4", "7", "7", "5", "8", "0", "7">>,
     <<"9", "2", "2", "3", "3", "7", "2", "0", "3", "6", "8", "5", "4", "7", "7", "5", "8", "0", "8">>,
     <<"-", "9", "2", "2", "3", "3", "7", "2", "0", "3", "6", "8", "5", "4", "7", "7", "5", "8", "0", "8">>,
     <<"-", "9", "2", "2", "3", "3", "7", "2", "0", "3", "6", "8", "5", "4", "7", "7", "5", "8", "0", "9">>,
     <<"0", "x", "1", "F">>,
     <<"h", "t", "t", "p", "s", ":", "/", "/", "a", ".", "i", "o">>,
     <<"e", "5">>,
     <<"1", "e">>,
     <<"+">>,
     <<"t", "r", "u", "e", "e">>,
     <<"1", "2", ":", "3", "0">>
    }

InitInfer ==
    /\ pc = "infer"
    /\ sample \in Samples \cup SeqsUpTo(Alphabet, MaxStrLen)
    /\ inferred = NoValue
    /\ value = NoValue /\ json = NoValue /\ decoded = NoValue
    /\ metadata = NoValue /\ issues = NoValue
    /\ csv = NoValue /\ generated = NoValue /\ columns = NoValue
    /\ written = NoValue
    /\ reported = NoValue /\ previous = NoValue

Infer ==
    /\ pc = "infer"
    /\ inferred' = DataType_from(sample)
    /\ pc' = "done"
    /\ UNCHANGED <<value, json, decoded, sample, metadata, issues, csv,
                   generated, columns, written, reported,
                   previous>>

NextInfer == Infer

SpecInfer == InitInfer /\ [][NextInfer]_vars

\* C7: the inferred type is Integer if the trimmed sample parses as an i64;
\* else Float if it parses as an f64; else Boolean if it is true or false in
\* any case; else Date if it parses as %Y-%m-%d; else Date if it parses as
\* an RFC 3339 timestamp; else Text.  It is never DateTime or Url.
C7_InferencePriority ==
    pc = "done" =>
        LET trimmed == trim(sample)
            isInt == parse_i64_is_ok(trimmed)
            isFloat == parse_f64_is_ok(trimmed)
            isBool == to_ascii_lowercase(trimmed)
                          \in {<<"t", "r", "u", "e">>, <<"f", "a", "l", "s", "e">>}
            isDate == parse_date_is_ok(trimmed)
            isTime == parse_from_rfc3339_is_ok(trimmed)
        IN  /\ inferred \in {Integer, Float, Boolean, Date, TextType}
            /\ inferred = Integer <=> isInt
            /\ inferred = Float <=> ~isInt /\ isFloat
            /\ inferred = Boolean <=> ~isInt /\ ~isFloat /\ isBool
            /\ inferred = Date <=>
                    ~isInt /\ ~isFloat /\ ~isBool /\ (isDate \/ isTime)
            /\ inferred = TextType <=>
                    ~isInt /\ ~isFloat /\ ~isBool /\ ~isDate /\ ~isTime

\* The spec's examples.
C7_Examples ==
    pc = "done" =>
        /\ sample = <<"4", "2">> => inferred = Integer
        /\ sample = <<"3", ".", "1", "4">> => inferred = Float
        /\ sample = <<"t", "r", "u", "e">> => inferred = Boolean
        /\ sample = <<"F", "A", "L", "S", "E">> => inferred = Boolean
        /\ sample = <<"2", "0", "2", "3", "-", "0", "5", "-", "0", "1">> => inferred = Date
        /\ sample = <<"2", "0", "2", "3", "-", "0", "5", "-", "0", "1", "T", "1", "0", ":", "0", "0", ":", "0", "0", "Z">>
                => inferred = Date
        /\ sample = <<"h", "e", "l", "l", "o">> => inferred = TextType

\* An RFC 3339 timestamp, which is neither number, boolean nor plain date,
\* was classified as Date.
C7_Witness ==
    /\ pc = "done"
    /\ sample = <<"2", "0", "2", "3", "-", "0", "5", "-", "0", "1", "T", "1", "0", ":", "0", "0", ":", "0", "0", "Z">>
    /\ ~parse_date_is_ok(sample)
    /\ inferred = Date

-----------------------------------------------------------------------------
(* validate.rs: ValidationIssue, ValidationIssues and the four passes of    *)
(* validate_metadata.  validate.rs reads the tree at a revision where       *)
(* FileObject.content_url, Field.source and Metadata.record_sets are        *)
(* Options; the trees validated here have that shape.  A digest is a        *)
(* sequence of one-character strings, every other text a string.            *)

\* ValidationIssue::error(message).with_context(context)
ErrorIssue(message, context) ==
    [severity |-> "Error", message |-> message, context |-> Some(context)]

\* ValidationIssue::warning(message).with_context(context)
WarningIssue(message, context) ==
    [severity |-> "Warning", message |-> message, context |-> Some(context)]

\* ValidationIssues::error_count, ::warning_count, ::has_errors
error_count(is) == Cardinality({i \in 1..Len(is) : is[i].severity = "Error"})
warning_count(is) == Cardinality({i \in 1..Len(is) : is[i].severity = "Warning"})
has_errors(is) == \E i \in 1..Len(is) : is[i].severity = "Error"

\* The issues pushed over a loop: those of each iteration, in order.
RECURSIVE Flatten(_)
Flatten(ss) == IF ss = <<>> THEN <<>> ELSE Head(ss) \o Flatten(Tail(ss))

\* The issue pushed under an if, or nothing.
When(cond, issue) == IF cond THEN <<issue>> ELSE <<>>

MandatoryName ==
    "Property \"https://schema.org/name\" is mandatory, but does not exist."
MandatoryContentUrl ==
    "Property \"https://schema.org/contentUrl\" is mandatory, but does not exist."
MandatoryEncodingFormat ==
    "Property \"https://schema.org/encodingFormat\" is mandatory, but does not exist."
RecommendedSha256 ==
    "Property \"https://schema.org/sha256\" is recommended for file integrity verification."
InvalidSha256 ==
    "Invalid SHA256 hash format. Expected 64 hexadecimal characters."

validate_metadata_basic(m) ==
    LET context == "Metadata(" \o Id_fmt(m.name) \o ")"
    IN  When(m.name = "", ErrorIssue(MandatoryName, context))
        \o When(m.kind # "Dataset",
                ErrorIssue("The current JSON-LD doesn't extend https://schema.org/Dataset.",
                           context))
        \o When(m.conforms_to = "",
                WarningIssue("Property \"http://purl.org/dc/terms/conformsTo\" is recommended, but does not exist.",
                             context))
        \o When(m.description = "",
                WarningIssue("Property \"https://schema.org/description\" is recommended, but does not exist.",
                             context))

\* The length the digest test compares with.
Sha256Len == 64

HexDigits == Digits \cup {"a", "b", "c", "d", "e", "f", "A", "B", "C", "D", "E", "F"}

\* char::is_ascii_hexdigit on every character.
all_ascii_hexdigit(s) == \A i \in 1..Len(s) : s[i] \in HexDigits

\* The condition of the else-if on a present digest:
\* sha256.is_some() || len != 64 || !all hex.
Sha256Rejected(sha256) ==
    \/ sha256.some
    \/ Len(sha256.v) # Sha256Len
    \/ ~all_ascii_hexdigit(sha256.v)

\* One iteration of validate_distributions.
validate_distribution(m, distribution) ==
    LET context == "Metadata(" \o Id_fmt(m.name) \o ") > FileObject("
                       \o Resource_fmt(distribution.resource) \o ")"
        resource == distribution.resource
    IN  IF resource.type = "FileObject"
        THEN When(~resource.content_url.some,
                  ErrorIssue(MandatoryContentUrl, context))
             \o When(resource.encoding_format = "",
                     ErrorIssue(MandatoryEncodingFormat, context))
             \o (IF ~resource.sha256.some
                 THEN <<WarningIssue(RecommendedSha256, context)>>
                 ELSE When(Sha256Rejected(resource.sha256),
                           ErrorIssue(InvalidSha256, context)))
        ELSE When(resource.encoding_format = "",
                  ErrorIssue(MandatoryEncodingFormat, context))

validate_distributions(m) ==
    Flatten([i \in 1..Len(m.distribution) |->
                validate_distribution(m, m.distribution[i])])

\* One iteration of validate_fields.  Only a source with an extract is
\* looked at; sub-fields are not visited.
validate_field(m, record_set, field) ==
    LET context == "Metadata(" \o Id_fmt(m.name) \o ") > RecordSet("
                       \o CrType_fmt(record_set.kind) \o ") > Field("
                       \o Id_fmt(field.name) \o ")"
        is_empty == field.source.v.extract.v.variant = "Column"
                    /\ field.source.v.extract.v.name = ""
        is_file_object_empty ==
            field.source.v.source.variant = "FileObject"
            /\ field.source.v.source.ref.id = ""
    IN  When(field.name = "", ErrorIssue(MandatoryName, context))
        \o When(field.kind # "Field",
                ErrorIssue("\"" \o Id_fmt(field.name)
                           \o "\" should have an attribute \"@type\": \"http://mlcommons.org/croissant/Field\". Got "
                           \o CrType_fmt(field.kind) \o " instead.",
                           context))
        \o When(field.source.some /\ field.source.v.extract.some
                /\ (is_empty \/ is_file_object_empty),
                ErrorIssue("Node \"" \o Id_fmt(field.id)
                           \o "\" is a field and has no source. Please, use http://mlcommons.org/croissant/source to specify the source.",
                           context))

validate_fields(m, record_set) ==
    Flatten([i \in 1..Len(record_set.fields) |->
                validate_field(m, record_set, record_set.fields[i])])

\* validate_record_set going on to the next record set once this one's kind
\* was reported, without looking at its fields.
validate_record_set_kind_first(m, record_set) ==
    LET context == "Metadata(" \o Id_fmt(m.name) \o ") > RecordSet("
                       \o CrType_fmt(record_set.kind) \o ")"
    IN  When(record_set.id = "", ErrorIssue(MandatoryName, context))
        \o (IF record_set.kind # "RecordSet"
            THEN <<ErrorIssue("\"" \o Id_fmt(record_set.id)
                              \o "\" should have an attribute \"@type\": \"http://mlcommons.org/croissant/RecordSet\". Got "
                              \o CrType_fmt(record_set.kind) \o " instead.",
                              context)>>
            ELSE validate_fields(m, record_set))

\* One iteration of validate_record_sets.
validate_record_set(m, record_set) ==
    LET context == "Metadata(" \o Id_fmt(m.name) \o ") > RecordSet("
                       \o CrType_fmt(record_set.kind) \o ")"
    IN  When(record_set.id = "", ErrorIssue(MandatoryName, context))
        \o When(record_set.kind # "RecordSet",
                ErrorIssue("\"" \o Id_fmt(record_set.id)
                           \o "\" should have an attribute \"@type\": \"http://mlcommons.org/croissant/RecordSet\". Got "
                           \o CrType_fmt(record_set.kind) \o " instead.",
                           context))
        \o validate_fields(m, record_set)

validate_record_sets(m) ==
    IF ~m.record_sets.some THEN <<>>
    ELSE Flatten([i \in 1..Len(m.record_sets.v) |->
                     validate_record_set(m, m.record_sets.v[i])])

\* The set validate_references collects first.
distribution_ids(m) ==
    {m.distribution[i].resource.id : i \in 1..Len(m.distribution)}

NonExistent(id) == "Field references non-existent file object: " \o Id_fmt(id)

\* DanglingIssue without the test that the id is not empty.
DanglingIssue_any_id(m, record_set, field) ==
    When(field.source.some
         /\ SourceRef_id(field.source.v.source) \notin distribution_ids(m),
         ErrorIssue(NonExistent(SourceRef_id(field.source.v.source)),
                    "Metadata(" \o Id_fmt(m.name) \o ") > RecordSet("
                        \o CrType_fmt(record_set.kind) \o ") > Field("
                        \o Id_fmt(field.name) \o ")"))

\* The body of validate_references' inner loop: the id of the source,
\* whichever its variant, is looked up among the distribution ids only.
DanglingIssue(m, record_set, field) ==
    When(field.source.some
         /\ SourceRef_id(field.source.v.source) # ""
         /\ SourceRef_id(field.source.v.source) \notin distribution_ids(m),
         ErrorIssue(NonExistent(SourceRef_id(field.source.v.source)),
                    "Metadata(" \o Id_fmt(m.name) \o ") > RecordSet("
                        \o CrType_fmt(record_set.kind) \o ") > Field("
                        \o Id_fmt(field.name) \o ")"))

validate_references(m) ==
    IF ~m.record_sets.some THEN <<>>
    ELSE Flatten([i \in 1..Len(m.record_sets.v) |->
             Flatten([k \in 1..Len(m.record_sets.v[i].fields) |->
                 DanglingIssue(m, m.record_sets.v[i],
                               m.record_sets.v[i].fields[k])])])

\* validate_metadata returning after the first pass that reported an Error.
validate_metadata_fail_fast(m) ==
    IF has_errors(validate_metadata_basic(m)) THEN validate_metadata_basic(m)
    ELSE IF has_errors(validate_distributions(m))
    THEN validate_metadata_basic(m) \o validate_distributions(m)
    ELSE IF has_errors(validate_record_sets(m))
    THEN validate_metadata_basic(m) \o validate_distributions(m)
         \o validate_record_sets(m)
    ELSE validate_metadata_basic(m) \o validate_distributions(m)
         \o validate_record_sets(m) \o validate_references(m)

\* validate_metadata appending to the issues of the invocation before
\* instead of a new collection.
validate_metadata_accumulating(m) ==
    (IF pc = "done" THEN issues ELSE <<>>)
    \o validate_metadata_basic(m)
    \o validate_distributions(m)
    \o validate_record_sets(m)
    \o validate_references(m)

\* validate_metadata: the four passes, each appending to the same list.
validate_metadata(m) ==
    validate_metadata_basic(m)
    \o validate_distributions(m)
    \o validate_record_sets(m)
    \o validate_references(m)

-----------------------------------------------------------------------------
(* The validator as a state machine: a tree is given, validate_metadata     *)
(* returns its issues                                                       *)

\* The most fields tried in a record set.
MaxFields == 2

Repeat(c, n) == [i \in 1..n |-> c]

\* Digests around the length tested, of hex and non-hex characters.
Sha256s ==
    {Repeat(c, n) : c \in {"a", "F", "g"},
                    n \in (Sha256Len - 1)..(Sha256Len + 1)}
    \cup {[i \in 1..Sha256Len |-> IF i % 2 = 0 THEN "B" ELSE "3"],
          [i \in 1..Sha256Len |-> IF i = 7 THEN "-" ELSE "0"],
          <<>>}

VFileObject(id, content_url, sha256) ==
    [type |-> "FileObject", id |-> id, name |-> id,
     content_url |-> content_url, encoding_format |-> "text/csv",
     sha256 |-> sha256]

VFileSet(id, encoding_format) ==
    [type |-> "FileSet", id |-> id, encoding_format |-> encoding_format]

VField(name, kind, source, sub_fields) ==
    [id |-> "main/" \o name, kind |-> kind, name |-> name, source |-> source,
     sub_fields |-> sub_fields]

VRecordSet(id, kind, fields) == [id |-> id, kind |-> kind, fields |-> fields]

VMetadata(name, distribution, record_sets) ==
    [name |-> name, kind |-> "Dataset", description |-> "a dataset",
     conforms_to |-> "cr:1.0", distribution |-> distribution,
     record_sets |-> record_sets]

SourceIds == {"", "data.csv", "files", "missing.csv", "main"}

VSources ==
    {None}
    \cup {Some([source |-> SourceRefOf(variant, id), extract |-> extract]) :
            variant \in SourceRefs,
            id \in SourceIds \ {"files"},
            extract \in {None, Some(Column("a"))}}

VFields ==
    {VField("a", "Field", source, None) : source \in VSources}
    \cup {VField("b", "Field",
                 Some([source |-> SourceRefOf("FileSet", id),
                       extract |-> Some(Column("b"))]),
                 Some(<<VField("c", "Field",
                               Some([source |-> SourceRefOf("FileObject",
                                                            "missing.csv"),
                                     extract |-> None]),
                               None)>>)) :
            id \in {"files", "missing.csv"}}

GoodDistribution ==
    <<[resource |-> VFileObject("data.csv", Some("data.csv"), None)],
      [resource |-> VFileSet("files", "text/csv")]>>

\* Trees that differ in their file objects' digests and content locators.
DigestTrees ==
    {VMetadata("d",
               <<[resource |-> VFileObject("data.csv", content_url, sha256)]>>
                   \o rest,
               record_sets) :
        content_url \in {None, Some("data.csv")},
        sha256 \in {None} \cup {Some(s) : s \in Sha256s},
        rest \in {<<>>, <<[resource |-> VFileSet("files", "")]>>,
                  <<[resource |->
                        VFileObject("more.csv", Some("more.csv"),
                                    Some(Repeat("c", Sha256Len)))]>>,
                  <<[resource |->
                        VFileObject("more.csv", Some("more.csv"), None)]>>},
        record_sets \in {None, Some(<<>>)}}

\* Trees that differ in the sources of their fields.
ReferenceTrees ==
    {VMetadata("d", GoodDistribution,
               Some(<<VRecordSet("main", "RecordSet", fields)>> \o rest)) :
        fields \in SeqsUpTo(VFields, MaxFields),
        rest \in {<<>>,
                  <<VRecordSet("other", "RecordSet",
                        <<VField("a", "Field",
                                 Some([source |-> SourceRefOf("RecordSet", "main"),
                                       extract |-> None]),
                                 None)>>)>>}}

\* Trees with empty names and mismatched kinds.
KindTrees ==
    {VMetadata(name, GoodDistribution,
               Some(<<VRecordSet(id, rkind,
                         <<VField(fname, fkind,
                                  Some([source |-> SourceRefOf("FileObject", ""),
                                        extract |-> Some(Column(fname))]),
                                  None)>>)>>)) :
        name \in {"", "d"}, id \in {"", "main"}, rkind \in {"RecordSet", "Field"},
        fname \in {"", "a"}, fkind \in {"Field", "FileSet"}}

\* Trees whose one field owns a sub-field: of a matching or a wrong kind,
\* extracting a named or an unnamed column, sourced from a distribution or
\* from an id no distribution has.
SubFieldTrees ==
    {VMetadata("d", GoodDistribution,
               Some(<<VRecordSet("main", "RecordSet",
                         <<VField("b", "Field",
                                  Some([source |-> SourceRefOf("FileSet", "files"),
                                        extract |-> Some(Column("b"))]),
                                  Some(<<VField("c", kind,
                                           Some([source |->
                                                    SourceRefOf("FileObject", id),
                                                 extract |-> Some(Column(column))]),
                                           None)>>))>>)>>)) :
        kind \in {"Field", "FileSet"}, id \in {"data.csv", "missing.csv"},
        column \in {"c", ""}}

\* Trees with something to report in every pass: no name, a file object
\* without content locator next to a file set without encoding format, a
\* record set of the wrong kind without id, and fields of the wrong kind
\* sourced from ids no distribution has.
FaultyTrees ==
    {VMetadata(name,
               <<[resource |-> VFileObject("data.csv", None, None)],
                 [resource |-> VFileSet("files", "")]>>,
               Some(<<VRecordSet("", "Field", fields),
                      VRecordSet("other", "RecordSet",
                          <<VField("", "FileObject",
                                   Some([source |->
                                            SourceRefOf("RecordSet", "missing.csv"),
                                         extract |-> Some(Column(""))]),
                                   None)>>)>>)) :
        name \in {"", "d"},
        fields \in SeqsUpTo({VField("a", "FileSet",
                                    Some([source |->
                                             SourceRefOf("FileObject", "missing.csv"),
                                          extract |-> Some(Column(""))]),
                                    None),
                             VField("b", "Field",
                                    Some([source |->
                                             SourceRefOf("FileSet", "files"),
                                          extract |-> Some(Column("b"))]),
                                    None)}, MaxFields)}

\* A tree of core.rs as validate.rs reads it: the content locator, each
\* field's source and the record sets are wrapped in Some.
ReadByValidator(m) ==
    [name |-> m.name, kind |-> m.kind, description |-> m.description,
     conforms_to |-> m.conforms_to,
     distribution |->
         [i \in 1..Len(m.distribution) |->
             [resource |->
                 IF m.distribution[i].resource.type = "FileObject"
                 THEN [m.distribution[i].resource EXCEPT
                          !.content_url = Some(@)]
                 ELSE m.distribution[i].resource]],
     record_sets |->
         Some([i \in 1..Len(m.record_sets) |->
                 [m.record_sets[i] EXCEPT
                     !.fields = [k \in 1..Len(@) |->
                                    [@[k] EXCEPT !.source = Some(@)]]]])]

\* Documents that differ from SomeDocument in the @type of the record set
\* and of its field: the four CrType tokens and a token of another enum.
KindTokens == {CrType_fmt(k) : k \in CrTypes} \cup {"sc:Dataset"}

KindDocuments ==
    {[SomeDocument EXCEPT
         !.o["recordSet"].a[1].o["@type"] = JString(rtoken),
         !.o["recordSet"].a[1].o["field"].a[1].o["@type"] = JString(ftoken)] :
        rtoken \in KindTokens, ftoken \in KindTokens}

\* What std::fs::read_to_string may answer for the path of validate_file.
Files == {None} \cup {Some(doc) : doc \in KindDocuments}

InitValidate ==
    /\ \/ /\ pc = "validate"
          /\ metadata \in DigestTrees \cup ReferenceTrees \cup KindTrees
                             \cup SubFieldTrees \cup FaultyTrees
          /\ json = NoValue
       \/ /\ pc = "validate_file"
          /\ metadata = NoValue
          /\ json \in Files
    /\ issues = NoValue
    /\ value = NoValue /\ decoded = NoValue
    /\ sample = NoValue /\ inferred = NoValue
    /\ csv = NoValue /\ generated = NoValue /\ columns = NoValue
    /\ written = NoValue
    /\ reported = NoValue /\ previous = NoValue

Validate ==
    /\ pc = "validate"
    /\ issues' = validate_metadata(metadata)
    /\ pc' = "done"
    /\ UNCHANGED <<value, json, decoded, sample, inferred, metadata, csv,
                   generated, columns, written, reported,
                   previous>>

\* A second invocation on the same tree.
Revalidate ==
    /\ pc = "done"
    /\ metadata # NoValue
    /\ previous' = issues
    /\ issues' = validate_metadata(metadata)
    /\ pc' = "again"
    /\ UNCHANGED <<value, json, decoded, sample, inferred, metadata, csv,
                   generated, columns, written, reported>>

\* validate_file, from the file's content on: the content is decoded and
\* the tree validated; an unreadable file or a decode error is returned.
validate_content(content) ==
    IF ~content.some THEN [decoded |-> Err([kind |-> "FileNotFound"])]
    ELSE IF ~Metadata_deserialize(content.v).ok
    THEN [decoded |-> Metadata_deserialize(content.v)]
    ELSE [decoded |-> Metadata_deserialize(content.v),
          metadata |-> ReadByValidator(Metadata_deserialize(content.v).v)]

validate_file ==
    /\ pc = "validate_file"
    /\ decoded' = validate_content(json).decoded
    /\ IF decoded'.ok
       THEN /\ metadata' = validate_content(json).metadata
            /\ issues' = validate_metadata(metadata')
            /\ pc' = "done"
       ELSE /\ pc' = "failed"
            /\ UNCHANGED <<metadata, issues>>
    /\ UNCHANGED <<value, json, sample, inferred, csv, generated, columns,
                   written, reported, previous>>

NextValidate == Validate \/ Revalidate \/ validate_file

SpecValidate == InitValidate /\ [][NextValidate]_vars

\* The positions of the issues with a given severity and message.
IssuesWith(severity, message) ==
    {n \in 1..Len(issues) :
        issues[n].severity = severity /\ issues[n].message = message}

\* The file objects of the tree, by position.
FileObjectsOf(m) ==
    {i \in 1..Len(m.distribution) : m.distribution[i].resource.type = "FileObject"}

\* C4: the 'Invalid SHA256 hash format' Error is added for a file object
\* with a present digest if and only if the digest is not exactly 64
\* hexadecimal characters; an absent digest gives one Warning and no Error.
C4_DigestValidity ==
    pc = "done" =>
        /\ Cardinality(IssuesWith("Error", InvalidSha256)) =
               Cardinality({i \in FileObjectsOf(metadata) :
                   LET sha256 == metadata.distribution[i].resource.sha256
                   IN  sha256.some
                       /\ (Len(sha256.v) # Sha256Len
                           \/ ~all_ascii_hexdigit(sha256.v))})
        /\ Cardinality(IssuesWith("Warning", RecommendedSha256)) =
               Cardinality({i \in FileObjectsOf(metadata) :
                   ~metadata.distribution[i].resource.sha256.some})
        /\ IssuesWith("Error", RecommendedSha256) = {}
        /\ IssuesWith("Warning", InvalidSha256) = {}

\* The fields of the tree's record sets that have a source with a non-empty
\* id, as <<record set, field>> positions, and the id each is sourced from.
SourcedFields(m) ==
    IF ~m.record_sets.some THEN {}
    ELSE {p \in (1..Len(m.record_sets.v)) \X (1..(MaxFields + 1)) :
             /\ p[2] <= Len(m.record_sets.v[p[1]].fields)
             /\ m.record_sets.v[p[1]].fields[p[2]].source.some
             /\ SourceRef_id(m.record_sets.v[p[1]].fields[p[2]].source.v.source)
                    # ""}

SourceOf(m, p) == m.record_sets.v[p[1]].fields[p[2]].source.v.source

\* The positions of the issues that report a dangling reference.
ReferentialIssues ==
    {n \in 1..Len(issues) :
        \E id \in SourceIds : issues[n].message = NonExistent(id)}

\* C5: every field of a record set sourced from a non-empty id gets exactly
\* one 'references non-existent' Error naming the id when no distribution has
\* that id, and none when a FileObject or FileSet has it; the referential
\* errors are as many as the dangling fields.
C5_ReferentialIntegrity ==
    pc = "done" =>
        LET Dangling == {p \in SourcedFields(metadata) :
                            SourceRef_id(SourceOf(metadata, p))
                                \notin distribution_ids(metadata)}
        IN  /\ Cardinality(ReferentialIssues) = Cardinality(Dangling)
            /\ \A n \in ReferentialIssues : issues[n].severity = "Error"
            /\ \A id \in SourceIds :
                   Cardinality({n \in ReferentialIssues :
                                   issues[n].message = NonExistent(id)})
                   = Cardinality({p \in Dangling :
                                     SourceRef_id(SourceOf(metadata, p)) = id})

\* A dangling field next to a field sourced from a distribution: one issue.
C5_Witness ==
    /\ pc = "done"
    /\ metadata.record_sets.some
    /\ Len(metadata.record_sets.v) = 1
    /\ Len(metadata.record_sets.v[1].fields) = 2
    /\ metadata.record_sets.v[1].fields[1].source =
           Some([source |-> SourceRefOf("FileObject", "missing.csv"),
                 extract |-> None])
    /\ metadata.record_sets.v[1].fields[2].source =
           Some([source |-> SourceRefOf("FileObject", "data.csv"),
                 extract |-> None])
    /\ Cardinality(ReferentialIssues) = 1
    /\ \A n \in ReferentialIssues :
           issues[n].message = NonExistent("missing.csv")

\* The ids of the tree's record sets.
record_set_ids(m) ==
    IF ~m.record_sets.some THEN {}
    ELSE {m.record_sets.v[i].id : i \in 1..Len(m.record_sets.v)}

\* C6: a field whose source is a RecordSet reference to the id of a record
\* set of the tree gets no referential Error, even when no distribution has
\* that id.
C6_RecordSetTargets ==
    pc = "done" =>
        \A id \in record_set_ids(metadata) \ {""} :
            (\A p \in SourcedFields(metadata) :
                SourceRef_id(SourceOf(metadata, p)) = id
                    => SourceOf(metadata, p).variant = "RecordSet")
            => IssuesWith("Error", NonExistent(id)) = {}

-----------------------------------------------------------------------------
(* derive_builder: the builders of core.rs                                  *)
(* A builder holds one slot per field of its struct.  No struct of core.rs  *)
(* declares a builder default, so build() needs every slot set, those of    *)
(* Option type too, and fails on the first unset field in declaration       *)
(* order.                                                                   *)

Unset == [set |-> FALSE]
Set(v) == [set |-> TRUE, v |-> v]

\* Error::Builder(e.to_string()) for UninitializedField(field).
BuilderError(field) == [kind |-> "Builder", field |-> field]

\* build() of a builder b whose struct declares its fields in this order.
build(b, order) ==
    IF \E i \in 1..Len(order) : ~b[order[i]].set
    THEN Err(BuilderError(order[CHOOSE i \in 1..Len(order) :
                                    /\ ~b[order[i]].set
                                    /\ \A k \in 1..(i - 1) : b[order[k]].set]))
    ELSE Ok([k \in DOMAIN b |-> b[k].v])

\* The fields of each struct, in declaration order.
FieldSource_fields == <<"source", "extract", "transform", "format">>
Field_fields ==
    <<"id", "kind", "name", "description", "data_types", "source", "references",
      "sub_fields", "parent_fields", "repeated", "equivalent_properties">>
FileObject_fields ==
    <<"id", "name", "content_url", "content_size", "encoding_format", "sha256">>
RecordSet_fields == <<"id", "kind", "keys", "fields", "record_types">>
Context_fields ==
    <<"language", "vocab", "sc", "cr", "dct", "cite_as", "column",
      "conforms_to", "data", "data_type">>
DataContext_fields == <<"id", "type">>
Metadata_fields ==
    <<"context", "kind", "name", "description", "conforms_to",
      "date_published", "version", "distribution", "record_sets">>

\* A builder with every slot unset, then the slots a chain of setters set.
Builder(order, set) ==
    [k \in Range(order) |-> IF k \in DOMAIN set THEN Set(set[k]) ELSE Unset]

\* default_context(): the setters it calls leave dct unset.
default_context ==
    LET data == build(Builder(DataContext_fields,
                              [id |-> "cr:data", type |-> "@json"]),
                      DataContext_fields)
        data_type == build(Builder(DataContext_fields,
                                   [id |-> "cr:DataType", type |-> "@vocal"]),
                           DataContext_fields)
    IN  IF ~data.ok THEN data
        ELSE IF ~data_type.ok THEN data_type
        ELSE build(Builder(Context_fields,
                           [language |-> "en", vocab |-> "https://schema.org/",
                            cite_as |-> "cr:citeAs", column |-> "cr:column",
                            conforms_to |-> "dct:conforms_to",
                            cr |-> "http://purl.org/dc/terms/",
                            data |-> data.v, data_type |-> data_type.v,
                            sc |-> "https://schema.org/"]),
                     Context_fields)

-----------------------------------------------------------------------------
(* generate.rs: generate_metadata_from_csv                                  *)
(* The call's input gathers its arguments and what its collaborators        *)
(* answer: the path's file name and stem, std::fs::metadata, the date, and  *)
(* calculate_sha256 and get_csv_columns of croissant::utils.                *)

\* The data type the loop settles on for header i: Url, unless there is a
\* first row and it has a cell i.
column_data_type(first_row, i) ==
    IF first_row.some /\ i <= Len(first_row.v)
    THEN DataType_from(first_row.v[i])
    ELSE Url

\* The FieldSource built for a header.
field_source(header, file_name) ==
    build(Builder(FieldSource_fields,
                  [extract |-> Some(Column(header)),
                   source |-> SourceRefOf("FileObject", file_name)]),
          FieldSource_fields)

\* The Field built for a header from its data type and its source.
field_of(header, data_type, source) ==
    build(Builder(Field_fields,
                  [id |-> "main/" \o header, kind |-> "Field", name |-> header,
                   description |-> "Field for " \o header,
                   data_types |-> <<data_type>>, source |-> source]),
          Field_fields)

\* The Field built for header i once its data type is settled: the
\* FieldSource is built first, and its failure is the field's.
field_for(header, data_type, file_name) ==
    IF field_source(header, file_name).ok
    THEN field_of(header, data_type, field_source(header, file_name).v)
    ELSE field_source(header, file_name)

\* The loop over the headers from header i on, fields the fields pushed
\* and data_types the data types settled on so far.  It returns at the
\* first builder that fails.
RECURSIVE fields_loop(_, _, _, _, _, _)

\* The end of iteration i: the error is returned, or the field is pushed.
push_field(headers, first_row, file_name, i, fields, data_types, field) ==
    IF ~field.ok
    THEN [result |-> field, columns |-> data_types]
    ELSE fields_loop(headers, first_row, file_name, i + 1,
                     Append(fields, field.v), data_types)

\* Iteration i once its data type is settled.
build_field(headers, first_row, file_name, i, fields, data_types, data_type) ==
    push_field(headers, first_row, file_name, i, fields,
               Append(data_types, data_type),
               field_for(headers[i], data_type, file_name))

fields_loop(headers, first_row, file_name, i, fields, data_types) ==
    IF i > Len(headers)
    THEN [result |-> Ok(fields), columns |-> data_types]
    ELSE build_field(headers, first_row, file_name, i, fields, data_types,
                     column_data_type(first_row, i))

\* The FileObject of the one distribution.
file_object_of(input) ==
    build(Builder(FileObject_fields,
                  [id |-> input.file_name.v, name |-> input.file_name.v,
                   content_size |-> Some(input.file_size \o " B"),
                   encoding_format |-> "text/csv",
                   sha256 |-> Some(input.sha256.v)]),
          FileObject_fields)

\* The RecordSet "main" holding the fields.
record_set_of(fields) ==
    build(Builder(RecordSet_fields,
                  [id |-> "main", kind |-> "RecordSet",
                   keys |-> <<[id |-> "main"]>>, fields |-> fields]),
          RecordSet_fields)

\* The Metadata builder's build(), whose result is unwrapped.
metadata_of(input, context, file_object, record_set) ==
    build(Builder(Metadata_fields,
                  [context |-> context, kind |-> "Dataset",
                   name |-> input.file_stem \o "_dataset",
                   description |-> "Dataset created from " \o input.file_name.v,
                   date_published |-> Some(input.today), version |-> "1.0.0",
                   distribution |->
                       <<[resource |->
                            [k \in DOMAIN file_object \cup {"type"} |->
                                IF k = "type" THEN "FileObject"
                                ELSE file_object[k]]]>>,
                   record_sets |-> <<record_set>>]),
          Metadata_fields)

\* What a call ends with: the value returned (or a panic), the data types
\* the loop settled on, and what was written to the output path.
Outcome(result, data_types, file) ==
    [result |-> result, columns |-> data_types, written |-> file]

Panic == [ok |-> FALSE, panic |-> TRUE]

\* The tail of the function once the tree is built: the optional write,
\* then Ok(metadata).
write_and_return(input, m, data_types) ==
    IF ~input.output_path.some
    THEN Outcome(Ok(m), data_types, None)
    ELSE IF ~input.output_path.v.writable
    THEN Outcome(Err([kind |-> "Io"]), data_types, None)
    ELSE Outcome(Ok(m), data_types,
                 Some([path |-> input.output_path.v.path,
                       content |-> Metadata_serialize(m)]))

\* The function from the loop's end on: the loop's error is returned, or
\* the context, the FileObject, the RecordSet and the Metadata are built in
\* turn, each failure returned, that of the last unwrapped.
assemble(input, loop) ==
    LET context == default_context
        file_object == file_object_of(input)
        record_set == record_set_of(loop.result.v)
        m == metadata_of(input, context.v, file_object.v, record_set.v)
    IN  IF ~loop.result.ok THEN Outcome(loop.result, loop.columns, None)
        ELSE IF ~context.ok THEN Outcome(context, loop.columns, None)
        ELSE IF ~file_object.ok THEN Outcome(file_object, loop.columns, None)
        ELSE IF ~record_set.ok THEN Outcome(record_set, loop.columns, None)
        ELSE IF ~m.ok THEN Outcome(Panic, loop.columns, None)
        ELSE write_and_return(input, m.v, loop.columns)

\* The output file as File::create leaves it: empty.
Created(input) ==
    IF input.output_path.some
    THEN Some([path |-> input.output_path.v.path, content |-> ""])
    ELSE None

\* generate_metadata_from_csv with the output file created before anything
\* else is done.
generate_metadata_from_csv_create_first(input) ==
    IF input.output_path.some /\ ~input.output_path.v.writable
    THEN Outcome(Err([kind |-> "Io"]), <<>>, None)
    ELSE IF ~input.file_name.some
    THEN Outcome(Err([kind |-> "InvalidFormat", message |-> "Invalid file path"]),
                 <<>>, Created(input))
    ELSE IF ~input.exists
    THEN Outcome(Err([kind |-> "FileNotFound"]), <<>>, Created(input))
    ELSE IF ~input.sha256.ok THEN Outcome(input.sha256, <<>>, Created(input))
    ELSE IF ~input.columns.ok THEN Outcome(input.columns, <<>>, Created(input))
    ELSE [assemble(input, fields_loop(input.columns.v.headers,
                                      input.columns.v.first_row,
                                      input.file_name.v, 1, <<>>, <<>>))
             EXCEPT !.written = IF @ = None THEN Created(input) ELSE @]

generate_metadata_from_csv(input) ==
    IF ~input.file_name.some
    THEN Outcome(Err([kind |-> "InvalidFormat", message |-> "Invalid file path"]),
                 <<>>, None)
    ELSE IF ~input.exists
    THEN Outcome(Err([kind |-> "FileNotFound"]), <<>>, None)
    ELSE IF ~input.sha256.ok THEN Outcome(input.sha256, <<>>, None)
    ELSE IF ~input.columns.ok THEN Outcome(input.columns, <<>>, None)
    ELSE assemble(input, fields_loop(input.columns.v.headers,
                                     input.columns.v.first_row,
                                     input.file_name.v, 1, <<>>, <<>>))

-----------------------------------------------------------------------------
(* The generator as a state machine: a call is given, it runs to its end    *)

\* The most header columns tried.
MaxHeaders == 2

Headers == {"id", "value"}

\* Cells of a first row: an integer, a float, a date, a word.
Cells == {<<"1">>, <<"3", ".", "1", "4">>,
          <<"2", "0", "2", "3", "-", "0", "5", "-", "0", "1">>, <<"x">>}

\* What get_csv_columns may answer: an error, or the headers and an
\* optional first row, of any length its type allows.
CsvColumns ==
    {Err([kind |-> "Csv"])}
    \cup {Ok([headers |-> headers, first_row |-> first_row]) :
            headers \in SeqsUpTo(Headers, MaxHeaders),
            first_row \in {None} \cup {Some(r) : r \in SeqsUpTo(Cells, MaxHeaders)}}

\* What calculate_sha256 may answer: an error, or the digest in hex.
Sha256Results == {Err([kind |-> "Io"]), Ok(Repeat("a", Sha256Len))}

Calls ==
    [file_name : {None, Some("data.csv")},
     file_stem : {"data"},
     exists : BOOLEAN,
     file_size : {"12"},
     today : {"2026-01-01"},
     sha256 : Sha256Results,
     columns : CsvColumns,
     output_path : {None, Some([path |-> "out.json", writable |-> TRUE]),
                    Some([path |-> "out.json", writable |-> FALSE])}]

\* The input is a CSV file the call can read all the way.
Readable(input) ==
    input.file_name.some /\ input.exists /\ input.sha256.ok /\ input.columns.ok

InitGenerate ==
    /\ pc = "generate"
    /\ csv \in Calls
    /\ generated = NoValue /\ columns = NoValue /\ written = NoValue
    /\ reported = NoValue /\ previous = NoValue
    /\ value = NoValue /\ json = NoValue /\ decoded = NoValue
    /\ sample = NoValue /\ inferred = NoValue
    /\ metadata = NoValue /\ issues = NoValue

Generate ==
    /\ pc = "generate"
    /\ LET outcome == generate_metadata_from_csv(csv)
       IN  /\ generated' = outcome.result
           /\ columns' = outcome.columns
           /\ written' = outcome.written
    /\ pc' = "done"
    /\ UNCHANGED <<value, json, decoded, sample, inferred, metadata, issues,
                   csv, reported, previous>>

NextGenerate == Generate

SpecGenerate == InitGenerate /\ [][NextGenerate]_vars

\* C8: each header column i yields a field with exactly one data type:
\* the inference of cell i of the sample row when a sample row exists, and
\* Url only if no sample row exists.
C8_ColumnDataTypes ==
    (pc = "done" /\ Readable(csv)) =>
        /\ generated.ok
        /\ Len(generated.v.record_sets[1].fields) = Len(csv.columns.v.headers)
        /\ \A i \in 1..Len(csv.columns.v.headers) :
               LET data_types == generated.v.record_sets[1].fields[i].data_types
                   first_row == csv.columns.v.first_row
               IN  /\ Len(data_types) = 1
                   /\ first_row.some =>
                          data_types[1] = DataType_from(first_row.v[i])
                   /\ data_types[1] = Url => ~first_row.some

\* The loop settled on Url for a column although a sample row exists: the
\* row has no cell for the column.
C8_UrlWithSampleRow ==
    /\ pc = "done"
    /\ Readable(csv)
    /\ csv.columns.v.first_row = Some(<<>>)
    /\ csv.columns.v.headers = <<"id">>
    /\ columns = <<Url>>
    /\ ~generated.ok

\* C9: for every readable CSV with headers h1..hn the call returns a tree
\* with one Distribution (a FileObject: id the file name, text/csv, the
\* computed digest) and one RecordSet "main" with key [main] and n fields in
\* header order, field i having id main/<hi> and a source extracting Column
\* hi from the FileObject of the file name.
C9_GeneratedShape ==
    (pc = "done" /\ Readable(csv)) =>
        /\ generated.ok
        /\ Len(generated.v.distribution) = 1
        /\ generated.v.distribution[1].resource.type = "FileObject"
        /\ generated.v.distribution[1].resource.id = csv.file_name.v
        /\ generated.v.distribution[1].resource.encoding_format = "text/csv"
        /\ generated.v.distribution[1].resource.sha256 = Some(csv.sha256.v)
        /\ Len(generated.v.record_sets) = 1
        /\ generated.v.record_sets[1].id = "main"
        /\ generated.v.record_sets[1].keys = <<[id |-> "main"]>>
        /\ Len(generated.v.record_sets[1].fields) = Len(csv.columns.v.headers)
        /\ \A i \in 1..Len(csv.columns.v.headers) :
               LET field == generated.v.record_sets[1].fields[i]
               IN  /\ field.id = "main/" \o csv.columns.v.headers[i]
                   /\ field.source.source =
                          SourceRefOf("FileObject", csv.file_name.v)
                   /\ field.source.extract =
                          Some(Column(csv.columns.v.headers[i]))

\* What every call on a readable CSV with at least one header ends with:
\* the error of the first FieldSource build, and nothing written.
C9_BuilderError ==
    /\ pc = "done"
    /\ Readable(csv)
    /\ csv.columns.v.headers = <<"id", "value">>
    /\ csv.columns.v.first_row = Some(<<<<"1">>, <<"3", ".", "1", "4">>>>)
    /\ generated = Err(BuilderError("transform"))
    /\ written = None

\* C10: the tree the call returns for a readable CSV is valid:
\* validate_metadata finds no issue of severity Error in it.
C10_GeneratedValid ==
    (pc = "done" /\ Readable(csv)) =>
        /\ generated.ok
        /\ ~has_errors(validate_metadata(ReadByValidator(generated.v)))

-----------------------------------------------------------------------------
(* Properties of the generator's failures                                   *)

\* A call that ended without a tree: an error value was returned.
HardFailure == pc = "done" /\ ~generated.ok

\* C11: whenever the call ends in a hard failure (no file name, unreadable
\* source, hashing or CSV-read failure, builder error) it returns an error
\* value and the output path has not been written; and when no output path
\* is supplied nothing is ever written.
C11_NoPartialOutput ==
    /\ HardFailure => (written = None /\ "e" \in DOMAIN generated)
    /\ (pc = "done" /\ ~csv.output_path.some) => written = None

\* A builder error on a call that was given a writable output path.
C11_Witness ==
    /\ HardFailure
    /\ Readable(csv)
    /\ csv.output_path = Some([path |-> "out.json", writable |-> TRUE])
    /\ csv.columns.v.headers = <<"id">>
    /\ generated = Err(BuilderError("transform"))
    /\ written = None

-----------------------------------------------------------------------------
(* validate.rs: ValidationIssues, its add_* methods and report              *)
(* A text is kept as the sequence of the pieces pushed onto it, a number    *)
(* being the piece of its decimal digits.                                   *)

\* ValidationIssue::error(message), ::warning(message)
error(message) == [severity |-> "Error", message |-> message, context |-> None]
warning(message) ==
    [severity |-> "Warning", message |-> message, context |-> None]

\* ValidationIssue::with_context
with_context(issue, context) == [issue EXCEPT !.context = Some(context)]

\* iter().filter(|issue| issue.severity == severity).collect()
filter(is, severity) == SelectSeq(is, LAMBDA issue : issue.severity = severity)

\* The pieces of whitespace only.
Blank == {"", " ", "\n"}

\* str::trim_end of one piece that is not whitespace only.
trim_end_piece(p) ==
    CASE p = "  -  " -> "  -"
      [] p = "] " -> "]"
      [] p = "late " -> "late"
      [] OTHER -> p

\* str::trim_end of a text: trailing whitespace goes, whole pieces first.
RECURSIVE trim_end(_)
trim_end(t) ==
    IF t = <<>> THEN <<>>
    ELSE IF t[Len(t)] \in Blank THEN trim_end(SubSeq(t, 1, Len(t) - 1))
    ELSE [t EXCEPT ![Len(t)] = trim_end_piece(@)]

\* The line pushed for one issue, with its context in brackets if it has
\* one.
issue_line(issue) ==
    IF issue.context.some
    THEN <<"  -  [", issue.context.v, "] ", issue.message, "\n">>
    ELSE <<"  -  ", issue.message, "\n">>

\* The header pushed before a group of n issues.
group_header(n, noun) ==
    <<"Found the following ", ToString(n), " " \o noun
        \o "(s) during the validation:", "\n">>

\* One group's pushes onto result: nothing if the group is empty; else a
\* separating newline if asked for and result is not empty, the header, and
\* a line per issue.
group(result, group_issues, noun, separate) ==
    IF group_issues = <<>> THEN result
    ELSE result
         \o (IF separate /\ result # <<>> THEN <<"\n">> ELSE <<>>)
         \o group_header(Len(group_issues), noun)
         \o Flatten([i \in 1..Len(group_issues) |-> issue_line(group_issues[i])])

\* report with the groups in the other order.
report_warnings_first(is) ==
    IF is = <<>> THEN <<>>
    ELSE trim_end(group(group(<<>>, filter(is, "Warning"), "warning", FALSE),
                        filter(is, "Error"), "error", TRUE))

\* ValidationIssues::report
report(is) ==
    IF is = <<>> THEN <<>>
    ELSE trim_end(group(group(<<>>, filter(is, "Error"), "error", FALSE),
                        filter(is, "Warning"), "warning", TRUE))

-----------------------------------------------------------------------------
(* The issue collection as a state machine: issues are added one at a      *)
(* time, and the report may be asked for at any time                        *)

\* The most issues added.
MaxIssues == 3

\* Messages: plain, ending in whitespace, empty.
Messages == {"first", "late ", ""}

Contexts == {"Metadata(d)"}

InitReport ==
    /\ pc = "collect"
    /\ issues = <<>>
    /\ reported = NoValue /\ previous = NoValue
    /\ value = NoValue /\ json = NoValue /\ decoded = NoValue
    /\ sample = NoValue /\ inferred = NoValue /\ metadata = NoValue
    /\ csv = NoValue /\ generated = NoValue /\ columns = NoValue
    /\ written = NoValue

\* self.issues.push(issue)
push(issue) ==
    /\ Len(issues) < MaxIssues
    /\ issues' = Append(issues, issue)
    /\ pc' = "collect"
    /\ UNCHANGED <<value, json, decoded, sample, inferred, metadata, csv,
                   generated, columns, written, reported, previous>>

add_error == \E message \in Messages : push(error(message))

add_warning == \E message \in Messages : push(warning(message))

add_error_with_context ==
    \E message \in Messages, context \in Contexts :
        push(with_context(error(message), context))

add_warning_with_context ==
    \E message \in Messages, context \in Contexts :
        push(with_context(warning(message), context))

Report ==
    /\ reported' = report(issues)
    /\ pc' = "reported"
    /\ UNCHANGED <<value, json, decoded, sample, inferred, metadata, issues,
                   csv, generated, columns, written, previous>>

NextReport ==
    \/ add_error
    \/ add_warning
    \/ add_error_with_context
    \/ add_warning_with_context
    \/ Report

SpecReport == InitReport /\ [][NextReport]_vars

\* The lines of a text: its pieces between newlines, the last line ending
\* with the text.
RECURSIVE LinesFrom(_, _)
LinesFrom(t, line) ==
    IF t = <<>> THEN (IF line = <<>> THEN <<>> ELSE <<line>>)
    ELSE IF Head(t) = "\n" THEN <<line>> \o LinesFrom(Tail(t), <<>>)
    ELSE LinesFrom(Tail(t), Append(line, Head(t)))

\* The lines that are not empty, each without its trailing whitespace.
ShownLines(t) ==
    LET lines == LinesFrom(t, <<>>)
        kept == SelectSeq(lines, LAMBDA line : line # <<>>)
    IN  [i \in 1..Len(kept) |-> trim_end(kept[i])]

\* The line an issue is listed by, without its trailing whitespace.
Shown(issue) ==
    trim_end(IF issue.context.some
             THEN <<"  -  [", issue.context.v, "] ", issue.message>>
             ELSE <<"  -  ", issue.message>>)

\* A group as the report has to list it: a header giving the count, then
\* the group's issues in the order they were added.
Listed(is, severity, count, noun) ==
    IF count = 0 THEN <<>>
    ELSE <<<<"Found the following ", ToString(count),
             " " \o noun \o "(s) during the validation:">>>>
         \o [i \in 1..Len(filter(is, severity)) |->
                Shown(filter(is, severity)[i])]

\* C12: after any sequence of add_* calls the report lists every Error
\* before every Warning, each group in the order the issues were added,
\* under headers giving error_count() and warning_count(); and the report is
\* the empty string if and only if no issue was added.
C12_ReportOrder ==
    pc = "reported" =>
        /\ ShownLines(reported)
               = Listed(issues, "Error", error_count(issues), "error")
                 \o Listed(issues, "Warning", warning_count(issues), "warning")
        /\ reported = <<>> <=> issues = <<>>

\* A report of a warning added before two errors, the last message ending
\* in whitespace.
C12_Witness ==
    /\ pc = "reported"
    /\ issues = <<warning("first"),
                  with_context(error(""), "Metadata(d)"),
                  error("late ")>>
    /\ reported = <<"Found the following ", "2",
                    " error(s) during the validation:", "\n",
                    "  -  [", "Metadata(d)", "] ", "", "\n",
                    "  -  ", "late ", "\n", "\n",
                    "Found the following ", "1",
                    " warning(s) during the validation:", "\n",
                    "  -  ", "first">>

-----------------------------------------------------------------------------
(* Properties of the validator as a function of the tree                    *)

\* A list of issues as validate_metadata returns them.
IsIssueList(is) ==
    \A i \in 1..Len(is) :
        /\ is[i].severity \in {"Error", "Warning"}
        /\ is[i].context.some

-----------------------------------------------------------------------------
(* Properties of the kind checks                                            *)

\* The record sets of a tree, and the fields of their field lists, by
\* position.
RecordSetsOf(m) ==
    IF ~m.record_sets.some THEN {} ELSE 1..Len(m.record_sets.v)

FieldsOf(m) ==
    {p \in RecordSetsOf(m) \X (1..(MaxFields + 1)) :
        p[2] <= Len(m.record_sets.v[p[1]].fields)}

FieldAt(m, p) == m.record_sets.v[p[1]].fields[p[2]]

\* The names kind mismatches are reported under.
NodeNames(m) ==
    {m.record_sets.v[i].id : i \in RecordSetsOf(m)}
    \cup {FieldAt(m, p).name : p \in FieldsOf(m)}

\* The message of a kind mismatch.
KindMismatch(name, kind, expected) ==
    "\"" \o Id_fmt(name)
    \o "\" should have an attribute \"@type\": \"http://mlcommons.org/croissant/"
    \o expected \o "\". Got " \o CrType_fmt(kind) \o " instead."

\* The @type tokens of the record set and of its field in a document.
RecordSetToken(doc) == doc.o["recordSet"].a[1].o["@type"].s
FieldToken(doc) == doc.o["recordSet"].a[1].o["field"].a[1].o["@type"].s

\* C14: decoding accepts a record set or field whose @type is any of the
\* four CrType tokens, and validate_metadata then reports exactly one
\* kind-mismatch Error for each record set whose kind is not RecordSet and
\* for each field of a record set whose kind is not Field, and none for the
\* nodes whose kind matches.
C14_KindMismatch ==
    /\ (pc \in {"done", "failed"} /\ json # NoValue /\ json.some
        /\ (\E k \in CrTypes : CrType_fmt(k) = RecordSetToken(json.v))
        /\ (\E k \in CrTypes : CrType_fmt(k) = FieldToken(json.v)))
       => /\ pc = "done"
          /\ decoded.ok
          /\ CrType_fmt(decoded.v.record_sets[1].kind) = RecordSetToken(json.v)
          /\ CrType_fmt(decoded.v.record_sets[1].fields[1].kind)
                 = FieldToken(json.v)
          /\ metadata.record_sets.v[1].kind = decoded.v.record_sets[1].kind
          /\ metadata.record_sets.v[1].fields[1].kind
                 = decoded.v.record_sets[1].fields[1].kind
    /\ pc = "done" =>
          \A name \in NodeNames(metadata), kind \in CrTypes :
              /\ Cardinality(IssuesWith("Error",
                                        KindMismatch(name, kind, "RecordSet")))
                 = Cardinality({i \in RecordSetsOf(metadata) :
                       /\ metadata.record_sets.v[i].id = name
                       /\ metadata.record_sets.v[i].kind = kind
                       /\ kind # "RecordSet"})
              /\ Cardinality(IssuesWith("Error",
                                        KindMismatch(name, kind, "Field")))
                 = Cardinality({p \in FieldsOf(metadata) :
                       /\ FieldAt(metadata, p).name = name
                       /\ FieldAt(metadata, p).kind = kind
                       /\ kind # "Field"})
              /\ IssuesWith("Warning", KindMismatch(name, kind, "RecordSet")) = {}
              /\ IssuesWith("Warning", KindMismatch(name, kind, "Field")) = {}

\* A document whose record set says cr:FileSet and whose field says
\* cr:RecordSet was decoded, and each got its Error.
C14_Witness ==
    /\ pc = "done"
    /\ json # NoValue
    /\ RecordSetToken(json.v) = "cr:FileSet"
    /\ FieldToken(json.v) = "cr:RecordSet"
    /\ decoded.ok
    /\ error_count(issues) = 2
    /\ IssuesWith("Error", KindMismatch("main", "FileSet", "RecordSet")) # {}
    /\ IssuesWith("Error", KindMismatch("id", "RecordSet", "Field")) # {}

-----------------------------------------------------------------------------
(* Properties of decoded texts                                              *)

\* C15: decoding a document in which a Text-typed value (name, description,
\* @id, encodingFormat, column name, ...) is the empty string fails with a
\* decode error rather than yielding a tree.
C15_TextNonEmpty ==
    (pc = "done" /\ json \in EmptyTextDocuments) => ~decoded.ok

\* A document whose name is the empty string was decoded into a tree whose
\* name is the empty Text.
C15_EmptyNameDecoded ==
    /\ pc = "done"
    /\ json = [SomeDocument EXCEPT !.o["name"] = JString("")]
    /\ decoded.ok
    /\ decoded.v.name = ""

-----------------------------------------------------------------------------
(* The untagged unions as a state machine: a field's source object, which   *)
(* holds a SourceRef (flattened), an Extract and a list of Transforms, is   *)
(* decoded                                                                  *)

\* The keys of each untagged union and the variant each selects, in
\* declaration order.
UnionKeys(U) ==
    CASE U = "Extract" -> <<"column", "fileProperty", "jsonPath">>
      [] U = "Transform" -> <<"regex", "delimiter", "jsonQuery">>
      [] U = "SourceRef" -> <<"fileObject", "fileSet", "recordSet">>

UnionVariants(U) ==
    CASE U = "Extract" -> <<"Column", "FileProperty", "JsonPath">>
      [] U = "Transform" -> <<"Regex", "Delimiter", "JsonQuery">>
      [] U = "SourceRef" -> <<"FileObject", "FileSet", "RecordSet">>

\* What may stand under each key: a value of the variant's field type,
\* and for some keys a value that is not; JMissing for a key left out.
KeyValues ==
    [column |-> {JMissing, JString("id"), JNull},
     fileProperty |-> {JMissing, JString("content"), JString("size")},
     jsonPath |-> {JMissing, JString("$.id")},
     regex |-> {JMissing, JString("^a")},
     delimiter |-> {JMissing, JString(","), JString("ab")},
     jsonQuery |-> {JMissing, JString(".id")},
     fileObject |-> {JMissing, Ref_serialize([id |-> "data.csv"]),
                     JString("data.csv")},
     fileSet |-> {JMissing, Ref_serialize([id |-> "files"])},
     recordSet |-> {JMissing, Ref_serialize([id |-> "main"])}]

\* The objects over the keys of a union: each key left out or holding one
\* of its values.
UnionObjects(U) ==
    {JObject([k \in {k \in Range(UnionKeys(U)) : f[k] # JMissing} |-> f[k]]) :
        f \in {f \in [Range(UnionKeys(U)) ->
                         UNION {KeyValues[k] : k \in Range(UnionKeys(U))}] :
                  \A k \in Range(UnionKeys(U)) : f[k] \in KeyValues[k]}}

\* A source object: the keys of a SourceRef object, with an extract and a
\* one-element transform list next to them, or without.
FieldSourceDocuments ==
    {JObject([k \in DOMAIN s.o
                     \cup (IF e = JMissing THEN {} ELSE {"extract"})
                     \cup (IF t = JMissing THEN {} ELSE {"transform"}) |->
                 IF k = "extract" THEN e
                 ELSE IF k = "transform" THEN JArray(<<t>>)
                 ELSE s.o[k]]) :
        s \in UnionObjects("SourceRef"),
        e \in UnionObjects("Extract") \cup {JMissing},
        t \in UnionObjects("Transform") \cup {JMissing}}

InitFieldSource ==
    /\ pc = "decode_source"
    /\ json \in FieldSourceDocuments
    /\ decoded = NoValue
    /\ value = NoValue /\ sample = NoValue /\ inferred = NoValue
    /\ metadata = NoValue /\ issues = NoValue
    /\ csv = NoValue /\ generated = NoValue /\ columns = NoValue
    /\ written = NoValue /\ reported = NoValue /\ previous = NoValue

\* FieldSource's Deserialize on the source object.
DeserializeFieldSource ==
    /\ pc = "decode_source"
    /\ decoded' = FieldSource_deserialize(json)
    /\ pc' = "done"
    /\ UNCHANGED <<value, json, sample, inferred, metadata, issues, csv,
                   generated, columns, written, reported, previous>>

NextFieldSource == DeserializeFieldSource

SpecFieldSource == InitFieldSource /\ [][NextFieldSource]_vars

\* The type of the one field of the variant a key selects, by its decoder.
KeyDecode(key, w) ==
    CASE key \in {"column", "jsonPath", "regex", "jsonQuery"} ->
            Text_deserialize(w)
      [] key = "fileProperty" -> FileProperty_deserialize(w)
      [] key = "delimiter" -> char_deserialize(w)
      [] key \in {"fileObject", "fileSet", "recordSet"} -> Ref_deserialize(w)

\* The variants of U an object could be: those whose key it holds with a
\* value of the variant's field type.
Matching(U, obj) ==
    {i \in 1..Len(UnionKeys(U)) :
        /\ HasKey(obj, UnionKeys(U)[i])
        /\ KeyDecode(UnionKeys(U)[i], obj.o[UnionKeys(U)[i]]).ok}

\* The first of them in declared order.
FirstMatching(U, obj) ==
    UnionVariants(U)[CHOOSE i \in Matching(U, obj) :
                         \A k \in Matching(U, obj) : i <= k]

\* C16: an object with only the key of one variant decodes to that variant
\* (column to Extract::Column, regex to Transform::Regex, fileObject to
\* SourceRef::FileObject, and so on); when several variants could match the
\* first in declared order is chosen; an object matching no variant is a
\* decode error.
C16_UntaggedByKey ==
    pc = "done" =>
        LET e == Get(json, "extract")
            t == Get(json, "transform")
        IN  /\ decoded.ok <=>
                   /\ Matching("SourceRef", json) # {}
                   /\ e # JMissing => Matching("Extract", e) # {}
                   /\ t # JMissing => Matching("Transform", t.a[1]) # {}
            /\ decoded.ok =>
                   /\ decoded.v.source.variant = FirstMatching("SourceRef", json)
                   /\ decoded.v.extract.some <=> e # JMissing
                   /\ e # JMissing =>
                          decoded.v.extract.v.variant = FirstMatching("Extract", e)
                   /\ decoded.v.transform.some <=> t # JMissing
                   /\ t # JMissing =>
                          decoded.v.transform.v[1].variant
                              = FirstMatching("Transform", t.a[1])
            /\ \A i \in 1..3 :
                   /\ (e # JMissing /\ DOMAIN e.o = {UnionKeys("Extract")[i]}
                       /\ decoded.ok)
                      => decoded.v.extract.v.variant = UnionVariants("Extract")[i]
                   /\ (t # JMissing
                       /\ DOMAIN t.a[1].o = {UnionKeys("Transform")[i]}
                       /\ decoded.ok)
                      => decoded.v.transform.v[1].variant
                             = UnionVariants("Transform")[i]
                   /\ (DOMAIN json.o \cap Range(UnionKeys("SourceRef"))
                           = {UnionKeys("SourceRef")[i]}
                       /\ decoded.ok)
                      => decoded.v.source.variant = UnionVariants("SourceRef")[i]

\* An object holding a column that is no text next to a fileProperty and a
\* jsonPath decodes to FileProperty, the first variant it matches; a
\* source holding fileSet and recordSet decodes to FileSet.
C16_Witness ==
    /\ pc = "done"
    /\ json = JObject("fileSet" :> Ref_serialize([id |-> "files"])
                      @@ "recordSet" :> Ref_serialize([id |-> "main"])
                      @@ "extract" :> JObject("column" :> JNull
                                              @@ "fileProperty" :> JString("content")
                                              @@ "jsonPath" :> JString("$.id"))
                      @@ "transform" :> JArray(<<JObject("delimiter" :> JString(","))>>))
    /\ decoded = Ok([source |-> SourceRefOf("FileSet", "files"),
                     extract |-> Some(FilePropertyOf("Content")),
                     transform |-> Some(<<Delimiter(",")>>),
                     format |-> None])

-----------------------------------------------------------------------------
(* Properties of the validator's coverage of sub-fields                     *)

\* The sub-fields owned by the fields of the record sets' field lists, as
\* <<record set, field, sub-field>> positions.
SubFieldsOf(m) ==
    {q \in FieldsOf(m) \X (1..(MaxFields + 1)) :
        /\ FieldAt(m, q[1]).sub_fields.some
        /\ q[2] <= Len(FieldAt(m, q[1]).sub_fields.v)}

SubFieldAt(m, q) == FieldAt(m, q[1]).sub_fields.v[q[2]]

\* The issues a field yields as an entry of a record set's field list.
IssuesAsTopLevel(m, record_set, field) ==
    Range(validate_field(m, record_set, field))
    \cup Range(DanglingIssue(m, record_set, field))

\* C17: a sub-field with a wrong kind, an empty column name or a non-empty
\* source id matching no distribution yields the same Error issue it would
\* yield as a top-level field.
C17_SubFieldsChecked ==
    pc = "done" =>
        \A q \in SubFieldsOf(metadata) :
            IssuesAsTopLevel(metadata, metadata.record_sets.v[q[1][1]],
                             SubFieldAt(metadata, q))
                \subseteq Range(issues)

\* A sub-field of kind FileSet, extracting an unnamed column of a file
\* object that does not exist, was validated without a single Error.
C17_SubFieldUnchecked ==
    /\ pc = "done"
    /\ metadata \in SubFieldTrees
    /\ SubFieldAt(metadata, <<<<1, 1>>, 1>>).kind = "FileSet"
    /\ SubFieldAt(metadata, <<<<1, 1>>, 1>>).source.v.extract = Some(Column(""))
    /\ SourceRef_id(SubFieldAt(metadata, <<<<1, 1>>, 1>>).source.v.source)
           = "missing.csv"
    /\ ~has_errors(issues)

-----------------------------------------------------------------------------
(* Properties of the source check                                           *)

\* The message of the source check.
NoSource(id) ==
    "Node \"" \o Id_fmt(id)
    \o "\" is a field and has no source. Please, use http://mlcommons.org/croissant/source to specify the source."

\* A declared source whose extraction column name is empty or whose
\* referenced-resource id is empty.
EmptySource(source) ==
    \/ /\ source.extract.some
       /\ source.extract.v.variant = "Column"
       /\ source.extract.v.name = ""
    \/ SourceRef_id(source.source) = ""

\* C18: every field that declares a source gets a 'has no source' Error
\* whenever its extraction column name is empty or its referenced-resource
\* id is empty, whichever SourceRef variant carries the id and whether or not
\* an extract is declared; a field whose column name and referenced id are
\* both non-empty gets no such error.
C18_NoSourceError ==
    pc = "done" =>
        \A id \in {FieldAt(metadata, p).id : p \in FieldsOf(metadata)} :
            /\ Cardinality(IssuesWith("Error", NoSource(id)))
               = Cardinality({p \in FieldsOf(metadata) :
                     /\ FieldAt(metadata, p).id = id
                     /\ FieldAt(metadata, p).source.some
                     /\ EmptySource(FieldAt(metadata, p).source.v)})
            /\ IssuesWith("Warning", NoSource(id)) = {}

\* A field extracting column a of a file set whose id is empty, and a field
\* sourced from a file object whose id is empty without an extract: neither
\* got the Error.
C18_EmptyIdAccepted ==
    /\ pc = "done"
    /\ metadata \in ReferenceTrees
    /\ Len(metadata.record_sets.v[1].fields) = 2
    /\ metadata.record_sets.v[1].fields[1].source =
           Some([source |-> SourceRefOf("FileSet", ""),
                 extract |-> Some(Column("a"))])
    /\ metadata.record_sets.v[1].fields[2].source =
           Some([source |-> SourceRefOf("FileObject", ""), extract |-> None])
    /\ IssuesWith("Error", NoSource("main/a")) = {}

-----------------------------------------------------------------------------
(* Properties of the order of the issues                                    *)

\* The tree with only distribution i, only record set i without its
\* fields, and only field k of record set i.
OnlyDistribution(m, i) == [m EXCEPT !.distribution = <<m.distribution[i]>>]

OnlyRecordSet(m, i) ==
    [m EXCEPT !.record_sets =
        Some(<<[m.record_sets.v[i] EXCEPT !.fields = <<>>]>>)]

OnlyField(m, i, k) ==
    [m EXCEPT !.record_sets =
        Some(<<[m.record_sets.v[i] EXCEPT
                   !.fields = <<m.record_sets.v[i].fields[k]>>]>>)]

\* What each list element has reported about itself: a distribution, a
\* record set, a field in the record-sets pass and in the referential pass.
OfDistribution(m, i) == validate_distributions(OnlyDistribution(m, i))

OfRecordSet(m, i) == validate_record_sets(OnlyRecordSet(m, i))

OfField(m, i, k) ==
    validate_fields(m, [m.record_sets.v[i] EXCEPT
                           !.fields = <<m.record_sets.v[i].fields[k]>>])

OfReference(m, i, k) == validate_references(OnlyField(m, i, k))

\* C19: the returned list is the concatenation of the issues of the basic
\* pass, of each distribution in list order, of each record set in list
\* order followed by those of its fields in list order, and of the
\* referential pass in record-set then field order; no pass and no list
\* element is skipped because an earlier check reported an Error.
C19_CollectAllOrder ==
    pc = "done" =>
        issues =
            validate_metadata_basic(metadata)
            \o Flatten([i \in 1..Len(metadata.distribution) |->
                           OfDistribution(metadata, i)])
            \o Flatten([i \in RecordSetsOf(metadata) |->
                           OfRecordSet(metadata, i)
                           \o Flatten([k \in 1..Len(metadata.record_sets.v[i].fields) |->
                                          OfField(metadata, i, k)])])
            \o Flatten([i \in RecordSetsOf(metadata) |->
                           Flatten([k \in 1..Len(metadata.record_sets.v[i].fields) |->
                                       OfReference(metadata, i, k)])])

\* A tree with Errors in each of the four passes, all of them returned.
C19_Witness ==
    /\ pc = "done"
    /\ metadata \in FaultyTrees
    /\ metadata.name = ""
    /\ Len(metadata.record_sets.v[1].fields) = 2
    /\ has_errors(validate_metadata_basic(metadata))
    /\ has_errors(OfDistribution(metadata, 1))
    /\ has_errors(OfDistribution(metadata, 2))
    /\ has_errors(OfRecordSet(metadata, 1))
    /\ has_errors(OfField(metadata, 1, 1))
    /\ has_errors(OfField(metadata, 2, 1))
    /\ has_errors(OfReference(metadata, 1, 1))
    /\ has_errors(OfReference(metadata, 2, 1))
    /\ error_count(issues) >= 12

=============================================================================
